---- MODULE Spec2Model ----
(***************************************************************************)
(* A model of ClipShare / UniPaste: the Windows participant                *)
(* (windows_client.py), the macOS coordinator (mac_clip_check.py), the     *)
(* shared FileHandler (handlers/file_handler.py), the SecurityManager      *)
(* (utils/security/crypto.py) and the ConnectionManager                    *)
(* (utils/connection_utils.py).                                            *)
(*                                                                         *)
(* The module holds these specifications over one set of variables:        *)
(*   SpecConn    - the participant's supervisor loop and reconnect policy  *)
(*   SpecConnLive - SpecConn with the fairness of the event loop           *)
(*   SpecCrypto  - encrypt_message / decrypt_message on byte strings       *)
(*   SpecRecord  - decrypt_message on altered and foreign input            *)
(*   SpecSync    - clipboard polling and remote application on two peers   *)
(*   SpecFile    - the chunk receiver of FileHandler and its senders       *)
(*   SpecAuth    - authentication and key exchange on one transport        *)
(*   SpecAuthClient - SpecAuth with responders other than handle_client    *)
(*   SpecPairing - PairingManager.generate_pairing_code                    *)
(*   SpecHub     - one coordinator, two participants: keys and broadcast   *)
(*   SpecSession - the sender and receiver tasks of one participant        *)
(*   SpecSessionLive - SpecSession with the fairness of the event loop     *)
(*   SpecSyncLive - SpecSync with a fair poll and a running clock          *)
(*   SpecFileOrder - SpecFile with chunks arriving out of order            *)
(*   SpecCache   - the digest-to-path cache of FileHandler                 *)
(*   SpecReceive - the coordinator's handlers of two clients and its poll  *)
(*   SpecExchange - a FILE_REQUEST answered and read by the client         *)
(*   SpecExchangeLive - SpecExchange with the fairness of the event loop   *)
(*   SpecRegistry - DeviceAuthManager: authorize, validate, revoke         *)
(* Each specification leaves the variables of the others at their idle     *)
(* value.                                                                  *)
(***************************************************************************)
EXTENDS Integers, Sequences, FiniteSets, TLC

VARIABLES
    \* ---- supervisor (windows_client.py, utils/connection_utils.py)
    connection_mgr,     \* ConnectionManager fields
    connection_status,  \* WindowsClipboardClient.connection_status
    ws_url,             \* WindowsClipboardClient.ws_url
    running,            \* WindowsClipboardClient.running
    pc,                 \* position of sync_clipboard / connect_and_sync
    delays,             \* history: delays returned since the last reset
    waited,             \* seconds slept by the current wait_for_reconnect
    discovery,          \* DeviceDiscovery: "browsing" or "closed"
    \* ---- SecurityManager (utils/security/crypto.py)
    shared_key,         \* SecurityManager.shared_key
    plaintext,          \* the argument of the last encrypt_message call
    wire,               \* the record the last encrypt_message call returned
    decrypted,          \* what the last decrypt_message call returned or raised
    \* ---- FileHandler (handlers/file_handler.py)
    src_file,           \* bytes of the file at the sending peer
    passes,             \* how many times the sender has streamed the file
    chan,               \* FILE_RESPONSE messages in flight, oldest first
    dups,               \* how many messages were delivered a second time
    dest_file,          \* bytes of temp_dir/filename at the receiving peer
    file_transfers,     \* FileHandler.file_transfers
    chunk_result,       \* what the last handle_received_chunk call returned
    delivered,          \* history: messages handed to handle_received_chunk
    \* ---- clipboard sync (mac_clip_check.py, windows_client.py)
    now,                \* time.time(), in half seconds
    mac,                \* ClipboardListener fields
    win,                \* WindowsClipboardClient fields and monitor_clipboard locals
    mac_pasteboard,     \* NSPasteboard: content and changeCount
    win_clipboard,      \* the Windows clipboard content
    m2w,                \* frames in flight, coordinator to participant
    w2m,                \* frames in flight, participant to coordinator
    sent,               \* history: every frame put on the wire
    applied,            \* history: every remote content written to a clipboard
    copies,             \* history: every copy made by a user
    last_local,         \* history: what each peer last sent or set locally
    file_obs,           \* history: file-list observations per peer (capped)
    \* ---- authentication and key exchange on one transport
    device_token,       \* WindowsClipboardClient.device_token
    token_file,         \* content of ~/.clipshare/device_token.txt
    authorized_devices, \* DeviceAuthManager.authorized_devices: id -> token
    next_token,         \* how many tokens authorize_device has issued
    connected_clients,  \* ClipboardListener.connected_clients
    is_first_time,      \* authenticate's local is_first_time
    auth_result,        \* history: how the participant's last authenticate ended
    prev_result,        \* history: auth_result of the attempt before
    attempts,           \* how many transports have been opened
    raw_attempts,       \* how many of them by a raw peer
    peer,               \* who opened the transport: participant or raw peer
    to_server,          \* messages in flight to the coordinator
    to_client,          \* messages in flight to the initiator
    transcript,         \* history: sends and accepted frames of the transport
    client_at,          \* position of the initiator
    handler_at,         \* position of handle_client for the transport
    \* ---- PairingManager (utils/connection_utils.py)
    pairing_code,       \* what the last generate_pairing_code call returned
    \* ---- the coordinator and its participants (mac_clip_check.py)
    hub_security_mgr,   \* ClipboardListener.security_mgr
    peer_security_mgr,  \* each participant's security_mgr
    hub_at,             \* position of handle_client, per participant
    peer_at,            \* position of connect_and_sync, per participant
    ws_of,              \* the open transport of each participant, 0 if none
    hub_clients,        \* ClipboardListener.connected_clients (transports)
    hub_connects,       \* how many transports have been opened
    inbox,              \* frames written to each participant's transport
    peer_read,          \* history: results of the participants' decrypt_message
    bcast,              \* broadcast_encrypted_data waiting for its writes
    bcast_log,          \* history: outcome of the broadcast that returned last
    broadcasts,         \* how many broadcasts have been started
    \* ---- the two tasks of a session (windows_client.py)
    tasks,              \* clipboard_task and receive_task of connect_and_sync
    supervisor,         \* position of connect_and_sync after the handshake
    task_sessions,      \* how many sessions have reached CONNECTED
    \* ---- the file cache (handlers/file_handler.py)
    file_cache,         \* FileHandler.file_cache: digest -> path
    cache_file,         \* content of temp_dir/filecache.json
    disk,               \* the paths that exist
    cache_lookup,       \* history: the last get_from_file_cache call and its result
    cache_ops,          \* how many cache calls have been made
    \* ---- the coordinator's receive handlers (mac_clip_check.py)
    rx_at,              \* per client: where its handle_client is (none, recv, inside a send)
    rx_out,             \* frames process_received_data wrote back to a sender
    rx_last,            \* history: the frame handled last
    rx_count,           \* how many frames process_received_data has taken
    \* ---- the device registry (utils/security/auth.py)
    registry,           \* DeviceAuthManager.authorized_devices: identity -> token
    reg_next,           \* how many tokens authorize_device has drawn
    reg_retired,        \* history: per identity, the tokens replaced or revoked
    reg_last            \* history: the registry call made last and its result

connVars ==
    <<connection_mgr, connection_status, ws_url, running, pc, delays, waited,
      discovery>>

cryptoVars == <<shared_key, plaintext, wire, decrypted>>

fileVars ==
    <<src_file, passes, chan, dups, dest_file, file_transfers, chunk_result,
      delivered>>

syncVars ==
    <<now, mac, win, mac_pasteboard, win_clipboard, m2w, w2m, sent, applied,
      copies, last_local, file_obs>>

authVars ==
    <<device_token, token_file, authorized_devices, next_token,
      connected_clients, is_first_time, auth_result, prev_result,
      attempts, raw_attempts, peer, to_server, to_client, transcript, client_at, handler_at>>

hubVars ==
    <<hub_security_mgr, peer_security_mgr, hub_at, peer_at, ws_of, hub_clients,
      hub_connects, inbox, peer_read, bcast, bcast_log, broadcasts>>

taskVars == <<tasks, supervisor, task_sessions>>

cacheVars ==
    <<file_cache, cache_file, disk, cache_lookup, cache_ops>>

recvVars ==
    <<rx_at, rx_out, rx_last, rx_count>>

regVars ==
    <<registry, reg_next, reg_retired, reg_last>>

vars ==
    <<connVars, cryptoVars, fileVars, syncVars, authVars, pairing_code,
      hubVars, taskVars,
      cacheVars,
      recvVars,
      regVars>>

notConn ==
    <<cryptoVars, fileVars, syncVars, authVars, pairing_code, hubVars,
      taskVars,
      cacheVars,
      recvVars,
      regVars>>

notCrypto ==
    <<connVars, fileVars, syncVars, authVars, pairing_code, hubVars,
      taskVars,
      cacheVars,
      recvVars,
      regVars>>

notFile ==
    <<connVars, cryptoVars, syncVars, authVars, pairing_code, hubVars,
      taskVars,
      cacheVars,
      recvVars,
      regVars>>

notSync ==
    <<connVars, cryptoVars, fileVars, authVars, pairing_code, hubVars,
      taskVars,
      cacheVars,
      recvVars,
      regVars>>

notAuth ==
    <<connVars, cryptoVars, fileVars, syncVars, pairing_code, hubVars,
      taskVars,
      cacheVars,
      recvVars,
      regVars>>

notPairing ==
    <<connVars, cryptoVars, fileVars, syncVars, authVars, hubVars, taskVars,
      cacheVars,
      recvVars,
      regVars>>

notHub ==
    <<connVars, cryptoVars, fileVars, syncVars, authVars, pairing_code,
      taskVars,
      cacheVars,
      recvVars,
      regVars>>

notTask ==
    <<connection_mgr, ws_url, pc, delays, waited, discovery, cryptoVars,
      fileVars, syncVars, authVars, pairing_code, hubVars,
      cacheVars,
      recvVars,
      regVars>>

notCache ==
    <<connVars, cryptoVars, fileVars, syncVars, authVars, pairing_code,
      hubVars, taskVars,
      recvVars,
      regVars>>

notRecv ==
    <<connVars, cryptoVars, fileVars, syncVars, authVars, pairing_code,
      hubVars, taskVars,
      cacheVars,
      regVars>>

notReg ==
    <<connVars, cryptoVars, fileVars, syncVars, authVars, pairing_code,
      hubVars, taskVars,
      cacheVars,
      recvVars>>

None == "None"

\* time.time() when the programs start, in half seconds; the fields that
\* hold timestamps start at 0, far in the past.
T0 == 2

NoContent == [kind |-> "none", v |-> <<>>]

NoHash == <<>>

(***************************************************************************)
(*                 ConnectionManager and the supervisor                    *)
(***************************************************************************)

\* Largest number of calculate_reconnect_delay calls between two resets.
MaxAttempts == 7

retry_delays == <<15, 30, 60, 180, 300>>

max_retry_delay == 300

ConnectionManager ==
    [current_retry_index |-> 0, connection_attempts |-> 0,
     last_successful_connection |-> 0]

\* A plausible slip: the index is reset to the last entry, not the first.
reset_reconnect_delay_wrong(mgr) ==
    [mgr EXCEPT !.current_retry_index = Len(retry_delays),
                !.connection_attempts = 0,
                !.last_successful_connection = 1]

\* last_successful_connection holds a timestamp in the code; the supervisor
\* model has no clock, so 1 stands for "some time.time()".
reset_reconnect_delay(mgr) ==
    [mgr EXCEPT !.current_retry_index = 0,
                !.connection_attempts = 0,
                !.last_successful_connection = 1]

\* A plausible slip: the index advances by two, skipping table entries.
calculate_reconnect_delay_skip(mgr) ==
    [delay |-> IF mgr.current_retry_index < Len(retry_delays)
               THEN retry_delays[mgr.current_retry_index + 1]
               ELSE max_retry_delay,
     mgr   |-> [mgr EXCEPT !.connection_attempts = @ + 1,
                           !.current_retry_index =
                               IF @ < Len(retry_delays) THEN
                                   IF @ + 2 <= Len(retry_delays) THEN @ + 2
                                   ELSE Len(retry_delays)
                               ELSE @]]

\* Python indexes retry_delays from 0, TLA+ from 1.
calculate_reconnect_delay(mgr) ==
    [delay |-> IF mgr.current_retry_index < Len(retry_delays)
               THEN retry_delays[mgr.current_retry_index + 1]
               ELSE max_retry_delay,
     mgr   |-> [mgr EXCEPT !.connection_attempts = @ + 1,
                           !.current_retry_index =
                               IF @ < Len(retry_delays) THEN @ + 1 ELSE @]]

\* The state after construction: WindowsClipboardClient.__init__ with a fresh
\* ConnectionManager, a SecurityManager that holds no shared key, a
\* FileHandler with no transfer on record and no file at the destination,
\* and ClipboardListener.__init__ on the coordinator with empty clipboards
\* on both machines.
Init ==
    /\ connection_mgr = ConnectionManager
    /\ connection_status = "DISCONNECTED"
    /\ ws_url = None
    /\ running = TRUE
    /\ pc = "loop"
    /\ delays = <<>>
    /\ waited = 0
    /\ discovery = "browsing"
    /\ shared_key = None
    /\ plaintext = <<>>
    /\ wire = <<>>
    /\ decrypted = <<>>
    /\ src_file = <<>>
    /\ passes = 0
    /\ chan = <<>>
    /\ dups = 0
    /\ dest_file = <<>>
    /\ file_transfers = <<>>
    /\ chunk_result = "none"
    /\ delivered = <<>>
    /\ now = T0
    /\ mac = [connected_clients |-> {}, last_change_count |-> 0,
              last_content_hash |-> NoHash, is_receiving |-> FALSE,
              last_update_time |-> 0, last_remote_content_hash |-> NoHash,
              last_remote_update_time |-> 0, ignore_clipboard_until |-> 0,
              last_processed_time |-> 0]
    /\ win = [is_receiving |-> FALSE, last_content_hash |-> NoHash,
              last_update_time |-> 0, last_remote_content_hash |-> NoHash,
              last_remote_update_time |-> 0, ignore_clipboard_until |-> 0,
              last_clipboard_data |-> <<>>, last_file_paths |-> <<>>,
              at |-> "idle", pending |-> NoContent]
    /\ mac_pasteboard = [content |-> NoContent, changeCount |-> 0]
    /\ win_clipboard = NoContent
    /\ m2w = <<>>
    /\ w2m = <<>>
    /\ sent = <<>>
    /\ applied = <<>>
    /\ copies = <<>>
    /\ last_local = [mac |-> NoHash, win |-> NoHash]
    /\ file_obs = [mac |-> 0, win |-> 0]
    /\ device_token = <<>>
    /\ token_file = <<>>
    /\ authorized_devices = [id \in {"win", "other"} |-> <<>>]
    /\ next_token = 0
    /\ connected_clients = {}
    /\ is_first_time = FALSE
    /\ auth_result = "none"
    /\ prev_result = "none"
    /\ attempts = 0
    /\ raw_attempts = 0
    /\ peer = "none"
    /\ to_server = <<>>
    /\ to_client = <<>>
    /\ transcript = <<>>
    /\ client_at = "idle"
    /\ handler_at = "idle"
    /\ pairing_code = <<>>
    /\ hub_security_mgr = [private_key |-> "S", shared_key |-> None]
    /\ peer_security_mgr =
           [p \in {"A", "B"} |-> [private_key |-> None, shared_key |-> None]]
    /\ hub_at = [p \in {"A", "B"} |-> "idle"]
    /\ peer_at = [p \in {"A", "B"} |-> "idle"]
    /\ ws_of = [p \in {"A", "B"} |-> 0]
    /\ hub_clients = {}
    /\ hub_connects = 0
    /\ inbox = [p \in {"A", "B"} |-> <<>>]
    /\ peer_read = [p \in {"A", "B"} |-> <<>>]
    /\ bcast = <<>>
    /\ bcast_log = <<>>
    /\ broadcasts = 0
    /\ tasks = [t \in {"clipboard_task", "receive_task"} |-> "none"]
    /\ supervisor = "idle"
    /\ task_sessions = 0
    /\ file_cache = [h \in {"h1", "h2"} |-> "None"]
    /\ cache_file = [h \in {"h1", "h2"} |-> "None"]
    /\ disk = {}
    /\ cache_lookup = <<>>
    /\ cache_ops = 0
    /\ rx_at = [p \in {"A", "B"} |-> "none"]
    /\ rx_out = <<>>
    /\ rx_last = <<>>
    /\ rx_count = 0
    /\ registry = [id \in {"win", "other"} |-> <<>>]
    /\ reg_next = 0
    /\ reg_retired = [id \in {"win", "other"} |-> {}]
    /\ reg_last = <<>>

\* ClipboardServiceListener.add_service -> on_service_found.  The browser is
\* started by sync_clipboard and restarted by wait_for_reconnect; stop()
\* closes it.
on_service_found ==
    /\ discovery = "browsing"
    /\ pc \in {"loop", "connect", "auth", "key_exchange", "session", "wait"}
    /\ ws_url # "ws://server"
    /\ ws_url' = "ws://server"
    /\ UNCHANGED <<connection_mgr, connection_status, running, pc, delays,
                   waited, discovery>>
    /\ UNCHANGED notConn

\* sync_clipboard, top of the loop with a known URL: CONNECTING, and
\* connect_and_sync starts (it sets CONNECTING again).
SyncStartConnect ==
    /\ pc = "loop" /\ running
    /\ connection_status = "DISCONNECTED"
    /\ ws_url # None
    /\ connection_status' = "CONNECTING"
    /\ pc' = "connect"
    /\ UNCHANGED <<connection_mgr, ws_url, running, delays, waited, discovery>>
    /\ UNCHANGED notConn

\* `while self.running` is false: the loop ends.
SyncExit ==
    /\ pc = "loop" /\ ~running
    /\ pc' = "stopped"
    /\ UNCHANGED <<connection_mgr, connection_status, ws_url, running, delays,
                   waited, discovery>>
    /\ UNCHANGED notConn

\* websockets.connect succeeded.
ConnectOk ==
    /\ pc = "connect"
    /\ pc' = "auth"
    /\ UNCHANGED <<connection_mgr, connection_status, ws_url, running, delays,
                   waited, discovery>>
    /\ UNCHANGED notConn

\* connect_and_sync declaring the session up once authenticate returned
AuthOk_connected ==
    /\ pc = "auth"
    /\ pc' = "key_exchange"
    /\ connection_status' = "CONNECTED"
    /\ UNCHANGED <<connection_mgr, ws_url, running, delays, waited, discovery>>
    /\ UNCHANGED notConn

\* authenticate returned True.
AuthOk ==
    /\ pc = "auth"
    /\ pc' = "key_exchange"
    /\ UNCHANGED <<connection_mgr, connection_status, ws_url, running, delays,
                   waited, discovery>>
    /\ UNCHANGED notConn

\* perform_key_exchange returned True: CONNECTED, the delay is reset and the
\* two tasks start.
KeyExchangeOk ==
    /\ pc = "key_exchange"
    /\ connection_status' = "CONNECTED"
    /\ connection_mgr' = reset_reconnect_delay(connection_mgr)
    /\ delays' = <<>>
    /\ pc' = "session"
    /\ UNCHANGED <<ws_url, running, waited, discovery>>
    /\ UNCHANGED notConn

\* connect_and_sync returns (False from a failed connect, authenticate or
\* key exchange, True when a task of the session finished): its finally
\* sets DISCONNECTED, sync_clipboard sets DISCONNECTED, clears ws_url and
\* calls wait_for_reconnect, which computes the delay before its first
\* sleep.
Returned ==
    LET r == calculate_reconnect_delay(connection_mgr) IN
    /\ connection_mgr.connection_attempts < MaxAttempts
    /\ connection_status' = "DISCONNECTED"
    /\ ws_url' = None
    /\ connection_mgr' = r.mgr
    /\ delays' = Append(delays, r.delay)
    /\ pc' = "wait"
    /\ waited' = 0
    /\ UNCHANGED <<running, discovery>>
    /\ UNCHANGED notConn

ConnectFail      == pc = "connect"      /\ Returned
AuthFail         == pc = "auth"         /\ Returned
KeyExchangeFail  == pc = "key_exchange" /\ Returned
SessionEnd       == pc = "session"      /\ Returned

\* receive_messages ends while the session is up (the transport closed, an
\* error, running is false): its finally sets DISCONNECTED; connect_and_sync
\* is still inside asyncio.wait.
receive_messages_exit ==
    /\ pc = "session"
    /\ connection_status = "CONNECTED"
    /\ connection_status' = "DISCONNECTED"
    /\ UNCHANGED <<connection_mgr, ws_url, running, pc, delays, waited,
                   discovery>>
    /\ UNCHANGED notConn

\* the delay the current wait_for_reconnect has drawn
delay == delays[Len(delays)]

\* One turn of ConnectionManager.wait_for_reconnect's loop: running_flag()
\* holds and less than delay has passed, so it sleeps sleep_interval
\* = min(1.0, delay / 10) = 1 second.
WaitSleep ==
    /\ pc = "wait"
    /\ running /\ waited < delay
    /\ waited' = waited + 1
    /\ UNCHANGED <<connection_mgr, connection_status, ws_url, running, pc,
                   delays, discovery>>
    /\ UNCHANGED notConn

\* wait_for_reconnect restarting discovery without looking at running
WaitDone_restart ==
    /\ pc = "wait"
    /\ ~(running /\ waited < delay)
    /\ pc' = "loop"
    /\ ws_url' = None
    /\ discovery' = "browsing"
    /\ UNCHANGED <<connection_mgr, connection_status, running, delays, waited>>
    /\ UNCHANGED notConn

\* ConnectionManager.wait_for_reconnect's sleep loop ends (the delay has
\* elapsed or running is false); the client then clears ws_url and
\* restarts discovery only when still running.
WaitDone ==
    /\ pc = "wait"
    /\ ~(running /\ waited < delay)
    /\ pc' = "loop"
    /\ ws_url' = IF running THEN None ELSE ws_url
    /\ discovery' = IF running THEN "browsing" ELSE discovery
    /\ UNCHANGED <<connection_mgr, connection_status, running, delays, waited>>
    /\ UNCHANGED notConn

\* WindowsClipboardClient.stop
stop ==
    /\ running
    /\ running' = FALSE
    /\ discovery' = "closed"
    /\ UNCHANGED <<connection_mgr, connection_status, ws_url, pc, delays,
                   waited>>
    /\ UNCHANGED notConn

ConnNext ==
    \/ on_service_found
    \/ SyncStartConnect
    \/ SyncExit
    \/ ConnectOk
    \/ AuthOk
    \/ KeyExchangeOk
    \/ ConnectFail
    \/ AuthFail
    \/ KeyExchangeFail
    \/ SessionEnd
    \/ receive_messages_exit
    \/ WaitSleep
    \/ WaitDone
    \/ stop

SpecConn == Init /\ [][ConnNext]_vars

\* The event loop resumes a task whose sleep has expired and a loop without
\* await runs on: the exit of the wait loop and the exit of sync_clipboard
\* are taken once they are possible.
SpecConnLive == SpecConn /\ WF_vars(WaitDone) /\ WF_vars(SyncExit)

(***************************************************************************)
(*                  Claims about the reconnect policy                      *)
(***************************************************************************)

\* C9: across consecutive failed attempts with no successful handshake in
\* between, the k-th reconnect delay is 15, 30, 60, 180, 300 and then 300
\* for every later attempt; the sequence is non-decreasing and never
\* exceeds 300 seconds.
C9_ReconnectSchedule ==
    /\ \A k \in 1..Len(delays) :
           delays[k] = CASE k = 1 -> 15
                         [] k = 2 -> 30
                         [] k = 3 -> 60
                         [] k = 4 -> 180
                         [] OTHER -> 300
    /\ \A k \in 1..(Len(delays) - 1) : delays[k] <= delays[k + 1]
    /\ \A k \in 1..Len(delays) : delays[k] <= 300

\* Seven failures in a row: the table is exhausted and 300 repeats.
C9_Witness ==
    /\ Len(delays) >= 7
    /\ delays[5] = 300 /\ delays[6] = 300 /\ delays[7] = 300
    /\ connection_mgr.last_successful_connection = 0

\* C10: after every successful handshake the reconnect delay index is 0, so
\* the first delay after the following disconnect is 15 s; a failed
\* connect, authentication or key exchange never resets the index.
C10_ResetOnHandshake ==
    /\ [](connection_status = "CONNECTED"
              => connection_mgr.current_retry_index = 0)
    /\ [][(pc = "key_exchange" /\ pc' = "session")
              => connection_mgr'.current_retry_index = 0]_vars
    /\ [][(pc = "session" /\ pc' = "wait") => delays' = <<15>>]_vars
    /\ [][(pc \in {"connect", "auth", "key_exchange"} /\ pc' = "wait")
              => /\ connection_mgr'.current_retry_index
                        >= connection_mgr.current_retry_index
                 /\ connection_mgr'.current_retry_index # 0]_vars

\* A handshake succeeded, the session ended and the first delay of the new
\* series has been drawn.
C10_Witness ==
    /\ pc = "wait"
    /\ delays = <<15>>
    /\ connection_mgr.last_successful_connection = 1
    /\ connection_mgr.current_retry_index = 1

(***************************************************************************)
(*            Claims about the connection status and shutdown              *)
(***************************************************************************)

AllowedTransitions ==
    {<<"DISCONNECTED", "CONNECTING">>, <<"CONNECTING", "CONNECTED">>,
     <<"CONNECTED", "DISCONNECTED">>, <<"CONNECTING", "DISCONNECTED">>}

\* C15: the participant's connection status changes only along
\* DISCONNECTED -> CONNECTING -> CONNECTED -> DISCONNECTED or
\* CONNECTING -> DISCONNECTED; it becomes CONNECTED only when authentication
\* and key exchange have both succeeded on the current transport; and after
\* a failure or the end of a session task the status is DISCONNECTED before
\* the supervisor loop can set CONNECTING again.
C15_StatusTransitions ==
    /\ [][connection_status' # connection_status
              => <<connection_status, connection_status'>>
                     \in AllowedTransitions]_vars
    /\ [][(connection_status' = "CONNECTED"
               /\ connection_status # "CONNECTED")
              => (pc = "key_exchange" /\ pc' = "session")]_vars
    /\ [](connection_status = "CONNECTED" => pc = "session")
    /\ [](pc \in {"wait", "loop", "stopped"}
              => connection_status = "DISCONNECTED")

\* a new attempt is under way after a session that was up and ended
C15_Witness ==
    /\ connection_status = "CONNECTING"
    /\ pc = "connect"
    /\ connection_mgr.last_successful_connection = 1
    /\ connection_mgr.connection_attempts > 0

\* C19: once shutdown is requested (running is false) a reconnect wait in
\* progress sleeps no further turn and ends, the supervisor loop ends, and
\* from then on discovery is not started again, no connection attempt is
\* started and the status never becomes CONNECTING.
C19_ShutdownStopsReconnect ==
    /\ [][(pc = "wait" /\ ~running) => waited' = waited]_vars
    /\ (pc = "wait" /\ ~running) ~> (pc = "stopped")
    /\ [](~running => discovery = "closed")
    /\ [][~running
              => /\ ~(pc = "loop" /\ pc' = "connect")
                 /\ connection_status' = "CONNECTING"
                        => connection_status = "CONNECTING"]_vars

\* shutdown was requested during a reconnect wait that had slept some, but
\* not all, of its delay
C19_Witness ==
    /\ pc = "wait" /\ ~running
    /\ 0 < waited /\ waited < delay

(***************************************************************************)
(*            SecurityManager.encrypt_message / decrypt_message            *)
(*                                                                         *)
(* A byte is a number in 0..255 and a byte string a sequence of bytes.     *)
(* AES-256-GCM comes from the cryptography package; it is modelled as a    *)
(* keyed stream cipher (GcmEncrypt, GcmDecrypt) with a keyed 16-byte tag   *)
(* over nonce and ciphertext (GcmTag).  A shared key is a small number.    *)
(***************************************************************************)

\* Longest plaintext the model encrypts.
MaxMsgLen == 2

IV_LEN == 12

TAG_LEN == 16

MIN_RECORD_LEN == 28

\* ord('{')
LBRACE == 123

\* b'type'
TYPE_BYTES == <<116, 121, 112, 101>>

Keys == {"k1", "k2"}

\* The key material the cipher mixes in.
KeyByte(key) == IF key = "k1" THEN 1 ELSE 2

\* NUL, 'A' and '{'
MsgBytes == {0, 65, 123}

Messages == UNION {[1..n -> MsgBytes] : n \in 0..MaxMsgLen}

Pad(prefix) == prefix \o [i \in 1..(IV_LEN - Len(prefix)) |-> 0]

\* os.urandom(12) may return any 12 bytes; these four are drawn here.
Nonces ==
    {Pad(<<>>), Pad(<<LBRACE>>), Pad(<<LBRACE>> \o TYPE_BYTES), Pad(TYPE_BYTES)}

RECURSIVE SumSeq(_)
SumSeq(s) == IF s = <<>> THEN 0 ELSE Head(s) + SumSeq(Tail(s))

\* bytes.startswith
StartsWith(data, b) == Len(data) >= 1 /\ data[1] = b

\* `pat in data` on bytes
Contains(data, pat) ==
    \E i \in 1..(Len(data) - Len(pat) + 1) :
        SubSeq(data, i, i + Len(pat) - 1) = pat

GcmKeystream(key, iv, i) == (KeyByte(key) * 31 + SumSeq(iv) + i) % 256

GcmEncrypt(key, iv, m) ==
    [i \in 1..Len(m) |-> (m[i] + GcmKeystream(key, iv, i)) % 256]

GcmDecrypt(key, iv, ct) ==
    [i \in 1..Len(ct) |-> (ct[i] + 256 - GcmKeystream(key, iv, i)) % 256]

GcmTag(key, iv, ct) ==
    [j \in 1..TAG_LEN |-> (KeyByte(key) * 17 + SumSeq(iv) + 3 * SumSeq(ct) + j) % 256]

Raised(e) == [ok |-> FALSE, err |-> e, data |-> <<>>]

Returned_(d) == [ok |-> TRUE, err |-> None, data |-> d]

\* encrypt_message with the nonce os.urandom returned: IV + tag + ciphertext.
encrypt_message(key, message, iv) ==
    IF key = None THEN Raised("Shared key not established")
    ELSE LET ciphertext == GcmEncrypt(key, iv, message)
         IN  Returned_(iv \o GcmTag(key, iv, ciphertext) \o ciphertext)

\* decrypt_message without the tag comparison of decryptor.finalize().
decrypt_message_unauthenticated(key, encrypted_data) ==
    IF key = None THEN Raised("Shared key not established")
    ELSE IF Len(encrypted_data) < MIN_RECORD_LEN
    THEN Raised("Encrypted data too short")
    ELSE Returned_(GcmDecrypt(key, SubSeq(encrypted_data, 1, IV_LEN),
                              SubSeq(encrypted_data, IV_LEN + TAG_LEN + 1,
                                     Len(encrypted_data))))

\* decrypt_message on bytes (the str branch is for text-mode frames, which
\* the peers never send after the handshake).
decrypt_message(key, encrypted_data) ==
    IF key = None THEN Raised("Shared key not established")
    ELSE IF StartsWith(encrypted_data, LBRACE)
            /\ Contains(encrypted_data, TYPE_BYTES)
    THEN Raised("Received unencrypted JSON bytes instead of encrypted data")
    ELSE IF Len(encrypted_data) < MIN_RECORD_LEN
    THEN Raised("Encrypted data too short")
    ELSE LET iv == SubSeq(encrypted_data, 1, IV_LEN)
             tag == SubSeq(encrypted_data, IV_LEN + 1, IV_LEN + TAG_LEN)
             ciphertext == SubSeq(encrypted_data, IV_LEN + TAG_LEN + 1,
                                  Len(encrypted_data))
         IN  IF tag # GcmTag(key, iv, ciphertext) THEN Raised("InvalidTag")
             ELSE Returned_(GcmDecrypt(key, iv, ciphertext))

\* set_peer_public_key derives the session's shared key.
set_peer_public_key(k) ==
    /\ shared_key = None
    /\ shared_key' = k
    /\ UNCHANGED <<plaintext, wire, decrypted>>
    /\ UNCHANGED notCrypto

\* One encrypt_message call with an established key; the record goes on the
\* wire.
Encrypt(m, iv) ==
    /\ shared_key # None
    /\ plaintext' = m
    /\ wire' = encrypt_message(shared_key, m, iv).data
    /\ decrypted' = <<>>
    /\ UNCHANGED shared_key
    /\ UNCHANGED notCrypto

\* The peer, holding the same key, calls decrypt_message on the record.
Decrypt ==
    /\ wire # <<>>
    /\ decrypted = <<>>
    /\ decrypted' = <<decrypt_message(shared_key, wire)>>
    /\ UNCHANGED <<shared_key, plaintext, wire>>
    /\ UNCHANGED notCrypto

CryptoNext ==
    \/ \E k \in Keys : set_peer_public_key(k)
    \/ \E m \in Messages, iv \in Nonces : Encrypt(m, iv)
    \/ Decrypt

SpecCrypto == Init /\ [][CryptoNext]_vars

(***************************************************************************)
(*                      Claims about the record layer                      *)
(***************************************************************************)

\* C8: for every established shared key, every byte string m and every
\* nonce the encryptor may draw, decrypt_message(encrypt_message(m))
\* returns m: no record produced by encrypt_message is rejected.
C8_RoundTrip ==
    decrypted # <<>> => (decrypted[1].ok /\ decrypted[1].data = plaintext)

(***************************************************************************)
(*          decrypt_message on input the encryptor did not produce         *)
(***************************************************************************)

\* Bytes written over one byte of a record in transit.
AlterBytes == {0, LBRACE}

\* Byte strings a peer may be handed that are no records at all: one byte,
\* b'{type', 27 bytes and 28 bytes.
RawInputs ==
    {<<0>>, <<LBRACE>> \o TYPE_BYTES, [i \in 1..(MIN_RECORD_LEN - 1) |-> 0],
     [i \in 1..MIN_RECORD_LEN |-> 0]}

\* One byte of the record on the wire is replaced by another value.
Alter(i, b) ==
    /\ i \in 1..Len(wire)
    /\ wire[i] # b
    /\ wire' = [wire EXCEPT ![i] = b]
    /\ UNCHANGED <<shared_key, plaintext, decrypted>>
    /\ UNCHANGED notCrypto

\* The record is altered once, between encrypt_message and decrypt_message.
AlterRecord ==
    /\ decrypted = <<>>
    /\ shared_key # None
    /\ Len(wire) >= MIN_RECORD_LEN
    /\ wire = encrypt_message(shared_key, plaintext,
                              SubSeq(wire, 1, IV_LEN)).data
    /\ \E i \in 1..(MIN_RECORD_LEN + MaxMsgLen), b \in AlterBytes : Alter(i, b)

\* The transport hands the peer bytes that were never encrypted.
ReceiveRaw(data) ==
    /\ wire = <<>>
    /\ wire' = data
    /\ UNCHANGED <<shared_key, plaintext, decrypted>>
    /\ UNCHANGED notCrypto

\* The record layer keeps nothing between two records, so one record per
\* behaviour is followed.
EncryptFirst(m, iv) == wire = <<>> /\ Encrypt(m, iv)

RecordNext ==
    \/ \E k \in Keys : set_peer_public_key(k)
    \/ \E m \in Messages, iv \in Nonces : EncryptFirst(m, iv)
    \/ Decrypt
    \/ AlterRecord
    \/ \E data \in RawInputs : ReceiveRaw(data)

SpecRecord == Init /\ [][RecordNext]_vars

\* the exception classes decrypt_message lets out, by the spec's error kinds
ErrorKind(err) ==
    CASE err = "Shared key not established" -> "NoKey"
      [] err = "Encrypted data too short" -> "Malformed"
      [] err = "Received unencrypted JSON bytes instead of encrypted data"
            -> "Malformed"
      [] err = "InvalidTag" -> "Auth"
      [] OTHER -> "none"

TagCheckFails ==
    /\ Len(wire) >= MIN_RECORD_LEN
    /\ SubSeq(wire, IV_LEN + 1, IV_LEN + TAG_LEN)
           # GcmTag(shared_key, SubSeq(wire, 1, IV_LEN),
                    SubSeq(wire, IV_LEN + TAG_LEN + 1, Len(wire)))

MaxFileLen == 3

\* Bytes per chunk in _transfer_small_file (700 * 1024 in the code).
ChunkSize == 1

\* How often the sender streams the file.
MaxPasses == 2

\* How many messages may be handled a second time.
MaxDups == 1

filename == "a.bin"

FileBytes == {1, 2}

\* the files the sender may hold, the empty file included
Files == UNION {[1..n -> FileBytes] : n \in 0..MaxFileLen}

\* hashlib.md5(...).hexdigest(), taken as collision free.
md5(data) == [md5 |-> data]

FileResponse(index, total, data, hash) ==
    [type |-> "file_response", filename |-> filename, chunk_index |-> index,
     total_chunks |-> total, chunk_data |-> data, chunk_hash |-> hash]

Min(a, b) == IF a < b THEN a ELSE b

\* _transfer_small_file: range(total_chunks) reads of chunk_size bytes, each
\* sent with its chunk_hash.
SmallFileChunks(f) ==
    LET total_chunks == (Len(f) + ChunkSize - 1) \div ChunkSize
    IN  [k \in 1..total_chunks |->
            LET chunk_data == SubSeq(f, (k - 1) * ChunkSize + 1,
                                     Min(k * ChunkSize, Len(f)))
            IN  FileResponse(k - 1, total_chunks, chunk_data,
                             <<md5(chunk_data)>>)]

\* handle_file_transfer: the whole file as chunk 0 of 1, without chunk_hash.
WholeFileChunks(f) ==
    IF f = <<>> THEN <<>> ELSE <<FileResponse(0, 1, f, <<>>)>>

\* exists, size > 0 and readable; the bytes are not compared with anything.
_verify_file_integrity(file_bytes) == Len(file_bytes) > 0

\* handle_received_chunk.  The file is opened in "ab" mode, so the write goes
\* to the end of the file whatever f.seek asked for.
handle_received_chunk(message, file_bytes, transfers) ==
    IF message.chunk_data = <<>>
    THEN [ret |-> FALSE, file |-> file_bytes, transfers |-> transfers]
    ELSE IF message.chunk_hash # <<>>
            /\ md5(message.chunk_data) # message.chunk_hash[1]
    THEN [ret |-> FALSE, file |-> file_bytes, transfers |-> transfers]
    ELSE LET written == file_bytes \o message.chunk_data
             t == IF message.filename \notin DOMAIN transfers
                  THEN (message.filename :>
                           [received_chunks |-> {message.chunk_index},
                            total_chunks |-> message.total_chunks])
                       @@ transfers
                  ELSE [transfers EXCEPT
                           ![message.filename].received_chunks =
                               @ \cup {message.chunk_index}]
             transfer == t[message.filename]
             is_complete ==
                 Cardinality(transfer.received_chunks) = transfer.total_chunks
         IN  [ret |-> is_complete /\ _verify_file_integrity(written),
              file |-> written, transfers |-> t]

\* The sender streams file f with handle_file_transfer.
SendWhole(f) ==
    /\ passes < MaxPasses
    /\ src_file' = f
    /\ passes' = passes + 1
    /\ chan' = chan \o WholeFileChunks(f)
    /\ UNCHANGED <<dups, dest_file, file_transfers, chunk_result, delivered>>
    /\ UNCHANGED notFile

\* The sender streams file f in chunks, as _transfer_small_file does.
SendChunked(f) ==
    /\ passes < MaxPasses
    /\ src_file' = f
    /\ passes' = passes + 1
    /\ chan' = chan \o SmallFileChunks(f)
    /\ UNCHANGED <<dups, dest_file, file_transfers, chunk_result, delivered>>
    /\ UNCHANGED notFile

\* The FILE_RESPONSE branch of the receiving peer (process_received_data on
\* the coordinator, _handle_file_response on the participant) calls
\* handle_received_chunk on message m.
Receive(m) ==
    LET r == handle_received_chunk(m, dest_file, file_transfers) IN
    /\ dest_file' = r.file
    /\ file_transfers' = r.transfers
    /\ chunk_result' = IF r.ret THEN "True" ELSE "False"
    /\ delivered' = Append(delivered, m)

\* The oldest message in flight arrives.
Deliver ==
    /\ chan # <<>>
    /\ Receive(Head(chan))
    /\ chan' = Tail(chan)
    /\ UNCHANGED <<src_file, passes, dups>>
    /\ UNCHANGED notFile

\* The message handled last is handled once more.
DeliverDuplicate ==
    /\ delivered # <<>>
    /\ dups < MaxDups
    /\ Receive(delivered[Len(delivered)])
    /\ dups' = dups + 1
    /\ UNCHANGED <<src_file, passes, chan>>
    /\ UNCHANGED notFile

\* A message in flight never arrives.
Lose(i) ==
    /\ i \in 1..Len(chan)
    /\ chan' = SubSeq(chan, 1, i - 1) \o SubSeq(chan, i + 1, Len(chan))
    /\ UNCHANGED <<src_file, passes, dups, dest_file, file_transfers,
                   chunk_result, delivered>>
    /\ UNCHANGED notFile

FileNext ==
    \/ \E f \in Files : SendWhole(f)
    \/ \E f \in Files : SendChunked(f)
    \/ Deliver
    \/ DeliverDuplicate
    \/ \E i \in 1..(MaxFileLen * MaxPasses) : Lose(i)

SpecFile == Init /\ [][FileNext]_vars

\* Message i in flight overtakes the ones sent before it: the chunks of one
\* file reach handle_received_chunk in an order other than the index order.
DeliverOutOfOrder(i) ==
    /\ i \in 2..Len(chan)
    /\ Receive(chan[i])
    /\ chan' = SubSeq(chan, 1, i - 1) \o SubSeq(chan, i + 1, Len(chan))
    /\ UNCHANGED <<src_file, passes, dups>>
    /\ UNCHANGED notFile

FileOrderNext ==
    \/ FileNext
    \/ \E i \in 2..MaxFileLen : DeliverOutOfOrder(i)

\* The receiver under every arrival order.
SpecFileOrder == Init /\ [][FileOrderNext]_vars

(***************************************************************************)
(*                     Claims about the file receiver                      *)
(***************************************************************************)

\* C5: whenever the receiver reports a transfer as completed, the digest of
\* the assembled file at the destination equals the digest of the sender's
\* file.  The case checked is the one where every message the receiver has
\* handled is a chunk of the sender's file.
C5_CompleteDigestEqual ==
    LET ofSender == {WholeFileChunks(src_file)[k] :
                         k \in 1..Len(WholeFileChunks(src_file))}
                    \cup {SmallFileChunks(src_file)[k] :
                              k \in 1..Len(SmallFileChunks(src_file))}
    IN  (/\ chunk_result = "True"
         /\ \A k \in 1..Len(delivered) : delivered[k] \in ofSender)
        => md5(dest_file) = md5(src_file)

\* The bytes a receiver holds when it stores the first arrival of every
\* message and ignores later duplicates.
RECURSIVE StoredOnce(_)
StoredOnce(msgs) ==
    IF msgs = <<>> THEN <<>>
    ELSE LET front == SubSeq(msgs, 1, Len(msgs) - 1)
             last == msgs[Len(msgs)]
         IN  IF \E k \in 1..Len(front) : front[k] = last
             THEN StoredOnce(front)
             ELSE StoredOnce(front) \o last.chunk_data

\* C6: while one stream of a file is being received, a chunk delivered more
\* than once is stored once: the assembled file holds the first arrival of
\* each chunk only, and the received-chunk count is the number of distinct
\* indices that arrived.
C6_DuplicateStoredOnce ==
    (passes = 1 /\ delivered # <<>>)
    => /\ dest_file = StoredOnce(delivered)
       /\ Cardinality(file_transfers[filename].received_chunks) =
              Cardinality({delivered[k].chunk_index :
                               k \in 1..Len(delivered)})

\* C32: for every arrival order of chunks 0..total_chunks-1 of one file, the
\* assembled destination file is the concatenation of the chunk bodies in
\* index order, as it is for in-order arrival.  The case is one stream of
\* the file of which every chunk has been handled exactly once.
C32_AnyArrivalOrderAssembles ==
    LET c == SmallFileChunks(src_file) IN
    (/\ passes = 1 /\ Len(c) > 0
     /\ Len(delivered) = Len(c)
     /\ \A k \in 1..Len(c) : \E j \in 1..Len(delivered) : delivered[j] = c[k])
    => dest_file = src_file

\* C7: for a three-chunk file of which only chunks 0 and 2 arrive, the
\* receiver does not report completion; when the sender then streams the
\* file again and chunks 0, 1, 2 arrive, the receiver reports completion
\* and the assembled file equals the sender's.
C7_RestreamCompletes ==
    LET c == SmallFileChunks(src_file) IN
    Len(c) = 3 =>
        /\ delivered = <<c[1], c[3]>> => chunk_result # "True"
        /\ delivered = <<c[1], c[3], c[1], c[2], c[3]>>
               => (chunk_result = "True" /\ dest_file = src_file)

(***************************************************************************)
(*          Clipboard sync between coordinator and participant             *)
(*                                                                         *)
(* The coordinator (mac) runs check_clipboard and, per client,             *)
(* handle_client; the participant (win) runs monitor_clipboard and         *)
(* receive_messages.  Each action is the code between two awaits.  Time    *)
(* is counted in half seconds, the greatest common unit of the delays that *)
(* separate two timestamps; the one comparison with 0.3 s is with a        *)
(* multiple of that unit, d * 0.5 < 0.3, which is d < 1.  A frame carries  *)
(* its message and the number of times encrypt_message was applied to it   *)
(* before websocket.send.                                                  *)
(***************************************************************************)

\* How far the clock runs.
MaxTicks == 3

\* How many copies the users make.
MaxCopies == 2

\* ClipboardConfig.UPDATE_DELAY = 0.5 s
UPDATE_DELAY == 1

\* ClipboardConfig.MIN_PROCESS_INTERVAL = 0.3 s, as a bound on whole half
\* seconds
MIN_PROCESS_INTERVAL == 1

\* The 1.0 s threshold of process_clipboard_content
SELF_UPDATE_THRESHOLD == 2

\* len(hashlib.md5(...).hexdigest())
HEXDIGEST_LEN == 32

Peers == {"mac", "win"}

Text(t) == [kind |-> "text", v |-> <<t>>]

FileList(paths) == [kind |-> "files", v |-> paths]

Contents == {Text("P"), Text("Q"), FileList(<<"a.bin">>)}

\* hashlib.md5 of a text, or of str(file_urls) for a file list
HashOf(c) == <<md5(c)>>

\* pyperclip.paste(): the text on the clipboard, empty when there is none
ClipText(c) == IF c.kind = "text" THEN c.v ELSE <<>>

\* _get_clipboard_files / the NSPasteboardTypeFileURL items: None when the
\* clipboard holds no files
ClipFiles(c) == IF c.kind = "files" THEN c.v ELSE <<>>

Frame(type, content, layers) ==
    [type |-> type, content |-> content, layers |-> layers]

\* handle_file_transfer for each path: a FILE message for the one path and
\* the file's bytes as one FILE_RESPONSE.  FileHandler encrypts each
\* message itself and hands the ciphertext to a send function, which
\* encrypts what it is given: by_sender is 1 for such a function.
RECURSIVE TransferFrames(_, _)
TransferFrames(paths, by_sender) ==
    IF paths = <<>> THEN <<>>
    ELSE <<Frame("file", FileList(<<Head(paths)>>), 1 + by_sender),
           Frame("file_response", FileList(<<Head(paths)>>), 1 + by_sender)>>
         \o TransferFrames(Tail(paths), by_sender)

\* `a, b = value` raises ValueError unless value has exactly `names` items.
Unpacks(items, names) == items = names

\* FileHandler.handle_clipboard_files; returns the hexdigest string.
handle_clipboard_files(file_urls, last_content_hash) ==
    LET content_hash == HashOf(FileList(file_urls)) IN
    IF content_hash = last_content_hash
    THEN [items |-> HEXDIGEST_LEN, hash |-> content_hash, frames |-> <<>>]
    ELSE [items |-> HEXDIGEST_LEN, hash |-> content_hash,
          frames |-> <<Frame("file", FileList(file_urls), 2)>>
                     \o TransferFrames(file_urls, 1)]

\* FileHandler.process_clipboard_content; returns a pair on every path.
process_clipboard_content(c, current_time, last_content_hash, last_update_time) ==
    IF ClipText(c) = <<>> THEN [items |-> 2, hash |-> last_content_hash,
                                time |-> last_update_time, frames |-> <<>>]
    ELSE IF HashOf(c) = last_content_hash
    THEN [items |-> 2, hash |-> last_content_hash,
          time |-> last_update_time, frames |-> <<>>]
    ELSE IF current_time - last_update_time < SELF_UPDATE_THRESHOLD
    THEN [items |-> 2, hash |-> last_content_hash,
          time |-> last_update_time, frames |-> <<>>]
    ELSE [items |-> 2, hash |-> HashOf(c), time |-> current_time,
          frames |-> <<Frame("text", c, 2)>>]

\* A plausible slip: every text on the pasteboard is broadcast, with no
\* check against what was last received or sent.
process_clipboard_unfiltered(m, c, t) ==
    IF m.connected_clients # {} /\ ClipText(c) # <<>>
    THEN [mac |-> m, frames |-> <<Frame("text", c, 2)>>]
    ELSE [mac |-> m, frames |-> <<>>]

\* ClipboardListener.process_clipboard: the frames it broadcasts and the
\* fields it leaves behind.  Frames are on the wire before the caller
\* unpacks the handler's return value.
process_clipboard(m, c, t) ==
    IF m.connected_clients = {} THEN [mac |-> m, frames |-> <<>>]
    ELSE IF ClipFiles(c) # <<>>
    THEN LET r == handle_clipboard_files(ClipFiles(c), m.last_content_hash)
             update_sent == Unpacks(r.items, 2)
         IN  [mac |-> IF update_sent
                      THEN [m EXCEPT !.last_content_hash = r.hash,
                                     !.last_update_time = t]
                      ELSE m,
              frames |-> r.frames
                         \o (IF update_sent
                             THEN TransferFrames(ClipFiles(c), 1)
                             ELSE <<>>)]
    ELSE IF ClipText(c) # <<>>
    THEN IF /\ m.last_remote_content_hash = HashOf(c)
            /\ t - m.last_remote_update_time < UPDATE_DELAY * 2
         THEN [mac |-> m, frames |-> <<>>]
         ELSE LET r == process_clipboard_content(
                           c, t, m.last_content_hash, m.last_update_time)
                  update_sent == Unpacks(r.items, 3) /\ r.frames # <<>>
              IN  [mac |-> IF update_sent
                           THEN [m EXCEPT !.last_content_hash = r.hash,
                                          !.last_update_time = r.time]
                           ELSE m,
                   frames |-> r.frames]
    ELSE [mac |-> m, frames |-> <<>>]

\* A plausible slip: the pasteboard is written but no field records it.
MacApplyText_unrecorded(m, c, cc, t) == m

\* The TEXT branch of process_received_data after the pasteboard accepted
\* the text and reports change count cc.
MacApplyText(m, c, cc, t) ==
    [m EXCEPT !.last_change_count = cc,
              !.last_content_hash = HashOf(c),
              !.last_update_time = t,
              !.ignore_clipboard_until = t + UPDATE_DELAY,
              !.last_remote_content_hash = HashOf(c),
              !.last_remote_update_time = t]

\* A plausible slip: the fields are updated whatever setString_forType_
\* returned.
apply_remote_text_unchecked(m, c, cc, t, success) == MacApplyText(m, c, cc, t)

\* `if success:` in the TEXT branch: the fields change only when the
\* pasteboard accepted the text.  An exception of the pasteboard call ends
\* the handler in process_received_data's except clause, with no field
\* changed either.
apply_remote_text(m, c, cc, t, success) ==
    IF success THEN MacApplyText(m, c, cc, t) ELSE m

Stamp(frames, from, obs) ==
    [k \in 1..Len(frames) |->
        [from |-> from, type |-> frames[k].type,
         content |-> frames[k].content, layers |-> frames[k].layers,
         time |-> now, obs |-> obs]]

Observe(n) == IF n < 2 THEN n + 1 ELSE n

\* The participant connects, authenticates and exchanges keys; the
\* coordinator's handle_client adds it to connected_clients, and
\* connect_and_sync starts monitor_clipboard and receive_messages.
Handshake ==
    /\ pc = "loop" /\ running
    /\ connection_status = "DISCONNECTED"
    /\ mac.connected_clients = {}
    /\ shared_key' = "k1"
    /\ ws_url' = "ws://server"
    /\ connection_status' = "CONNECTED"
    /\ connection_mgr' = reset_reconnect_delay(connection_mgr)
    /\ pc' = "session"
    /\ mac' = [mac EXCEPT !.connected_clients = {"win"}]
    /\ UNCHANGED <<running, delays, waited, discovery, plaintext, wire,
                   decrypted>>
    /\ UNCHANGED <<now, win, mac_pasteboard, win_clipboard, m2w, w2m, sent,
                   applied, copies, last_local, file_obs>>
    /\ UNCHANGED <<fileVars, authVars, pairing_code, hubVars,
      taskVars,
      cacheVars,
      recvVars,
      regVars>>

Tick ==
    /\ now < T0 + MaxTicks
    /\ now' = now + 1
    /\ UNCHANGED <<mac, win, mac_pasteboard, win_clipboard, m2w, w2m, sent,
                   applied, copies, last_local, file_obs>>
    /\ UNCHANGED notSync

\* A user copies content c on the coordinator's machine.
MacUserCopy(c) ==
    /\ mac.connected_clients # {}
    /\ Len(copies) < MaxCopies
    /\ mac_pasteboard' = [content |-> c,
                          changeCount |-> mac_pasteboard.changeCount + 1]
    /\ copies' = Append(copies, [peer |-> "mac", content |-> c,
                                 at |-> Len(sent) + Len(applied)])
    /\ UNCHANGED <<now, mac, win, win_clipboard, m2w, w2m, sent, applied,
                   last_local, file_obs>>
    /\ UNCHANGED notSync

\* A user copies content c on the participant's machine.
WinUserCopy(c) ==
    /\ connection_status = "CONNECTED"
    /\ Len(copies) < MaxCopies
    /\ win_clipboard' = c
    /\ copies' = Append(copies, [peer |-> "win", content |-> c,
                                 at |-> Len(sent) + Len(applied)])
    /\ UNCHANGED <<now, mac, win, mac_pasteboard, m2w, w2m, sent, applied,
                   last_local, file_obs>>
    /\ UNCHANGED notSync

\* One iteration of check_clipboard, with process_clipboard when the change
\* count moved.
MacPoll ==
    /\ running /\ mac.connected_clients # {}
    /\ LET observed ==
               /\ ~mac.is_receiving
               /\ ~(now < mac.ignore_clipboard_until)
               /\ ~(now - mac.last_processed_time < MIN_PROCESS_INTERVAL)
               /\ mac_pasteboard.changeCount # mac.last_change_count
           r == process_clipboard(
                    [mac EXCEPT !.last_change_count =
                                    mac_pasteboard.changeCount],
                    mac_pasteboard.content, now)
           files == observed /\ ClipFiles(mac_pasteboard.content) # <<>>
           obs == IF files THEN Observe(file_obs.mac) ELSE 0
           out == IF observed THEN Stamp(r.frames, "mac", obs) ELSE <<>>
       IN  /\ mac' = IF observed THEN r.mac ELSE mac
           /\ m2w' = m2w \o out
           /\ sent' = sent \o out
           /\ file_obs' = IF files THEN [file_obs EXCEPT !.mac = obs]
                          ELSE file_obs
           /\ last_local' =
                  IF out # <<>>
                  THEN [last_local EXCEPT
                           !.mac = HashOf(mac_pasteboard.content)]
                  ELSE last_local
    /\ UNCHANGED <<now, win, mac_pasteboard, win_clipboard, w2m, applied,
                   copies>>
    /\ UNCHANGED notSync

\* handle_client receives the next frame and process_received_data handles
\* it.  A frame encrypted twice decrypts to ciphertext, which is not a
\* message; FILE and FILE_RESPONSE raise TypeError at the handler call.
\* success is what the pasteboard answers to setString_forType_, after
\* clearContents has emptied it; FALSE stands for a failure result and for
\* an exception.
MacReceive(success) ==
    /\ running /\ w2m # <<>>
    /\ LET f == Head(w2m)
           c == f.content
           writes == /\ f.layers = 1
                     /\ f.type = "text"
                     /\ ClipText(c) # <<>>
                     /\ HashOf(c) # mac.last_content_hash
           applies == writes /\ success
           cc == mac_pasteboard.changeCount + 1
       IN  /\ w2m' = Tail(w2m)
           /\ mac_pasteboard' =
                  IF applies THEN [content |-> c, changeCount |-> cc]
                  ELSE IF writes
                  THEN [content |-> NoContent, changeCount |-> cc]
                  ELSE mac_pasteboard
           /\ mac' = IF writes
                     THEN apply_remote_text(mac, c, cc, now, success)
                     ELSE mac
           /\ applied' =
                  IF applies
                  THEN Append(applied,
                              [peer |-> "mac", content |-> c, time |-> now,
                               at |-> Len(sent),
                               last_local |-> last_local.mac])
                  ELSE applied
           /\ last_local' = IF applies
                            THEN [last_local EXCEPT !.mac = HashOf(c)]
                            ELSE last_local
    /\ UNCHANGED <<now, win, win_clipboard, m2w, sent, copies, file_obs>>
    /\ UNCHANGED notSync

\* One iteration of monitor_clipboard up to its sends.
WinPoll ==
    /\ running /\ connection_status = "CONNECTED"
    /\ win.at = "idle"
    /\ LET suppressed == now < win.ignore_clipboard_until
           file_paths == ClipFiles(win_clipboard)
           send_files == /\ ~suppressed
                         /\ file_paths # <<>>
                         /\ file_paths # win.last_file_paths
           w1 == IF ~suppressed /\ file_paths = <<>>
                    /\ win.last_file_paths # <<>>
                 THEN [win EXCEPT !.last_file_paths = <<>>]
                 ELSE win
           current_clipboard == ClipText(win_clipboard)
           send_text == /\ ~suppressed /\ ~send_files
                        /\ current_clipboard # w1.last_clipboard_data
                        /\ current_clipboard # <<>>
                        /\ HashOf(win_clipboard) # w1.last_remote_content_hash
                        /\ HashOf(win_clipboard) # w1.last_content_hash
           files == ~suppressed /\ file_paths # <<>>
           obs == IF files THEN Observe(file_obs.win) ELSE 0
           out == IF send_files
                  THEN Stamp(<<Frame("file", win_clipboard, 1)>>
                             \o TransferFrames(file_paths, 1), "win", obs)
                  ELSE IF send_text
                  THEN Stamp(<<Frame("text", win_clipboard, 1)>>, "win", 0)
                  ELSE <<>>
       IN  /\ win' = IF send_files
                     THEN [win EXCEPT !.at = "files_sent",
                                      !.pending = win_clipboard]
                     ELSE IF send_text
                     THEN [w1 EXCEPT !.at = "text_sent",
                                     !.pending = win_clipboard]
                     ELSE w1
           /\ w2m' = w2m \o out
           /\ sent' = sent \o out
           /\ file_obs' = IF files THEN [file_obs EXCEPT !.win = obs]
                          ELSE file_obs
           /\ last_local' =
                  IF out # <<>>
                  THEN [last_local EXCEPT !.win = HashOf(win_clipboard)]
                  ELSE last_local
    /\ UNCHANGED <<now, mac, mac_pasteboard, win_clipboard, m2w, applied,
                   copies>>
    /\ UNCHANGED notSync

\* monitor_clipboard after its sends returned: the bookkeeping.
WinPollDone ==
    /\ win.at # "idle"
    /\ win' = IF win.at = "text_sent"
              THEN [win EXCEPT !.last_content_hash = HashOf(win.pending),
                               !.last_update_time = now,
                               !.last_clipboard_data = win.pending.v,
                               !.at = "idle", !.pending = NoContent]
              ELSE [win EXCEPT !.last_file_paths = win.pending.v,
                               !.ignore_clipboard_until = now + UPDATE_DELAY,
                               !.at = "idle", !.pending = NoContent]
    /\ UNCHANGED <<now, mac, mac_pasteboard, win_clipboard, m2w, w2m, sent,
                   applied, copies, last_local, file_obs>>
    /\ UNCHANGED notSync

\* receive_messages takes the next frame.  A frame encrypted twice decrypts
\* to bytes that are not JSON and goes to _handle_raw_binary_data, which
\* finds no pending metadata; a text message goes to _handle_text_message,
\* where FileHandler has no handle_text_message (AttributeError, caught in
\* _handle_json_message).  Neither touches the clipboard or a field.
WinReceive ==
    /\ running /\ connection_status = "CONNECTED"
    /\ m2w # <<>>
    /\ m2w' = Tail(m2w)
    /\ UNCHANGED <<now, mac, win, mac_pasteboard, win_clipboard, w2m, sent,
                   applied, copies, last_local, file_obs>>
    /\ UNCHANGED notSync

SyncNext ==
    \/ Handshake
    \/ Tick
    \/ \E c \in Contents : MacUserCopy(c)
    \/ \E c \in Contents : WinUserCopy(c)
    \/ MacPoll
    \/ \E success \in BOOLEAN : MacReceive(success)
    \/ WinPoll
    \/ WinPollDone
    \/ WinReceive

SpecSync == Init /\ [][SyncNext]_vars

\* check_clipboard is a task of the running event loop and wakes every
\* CLIPBOARD_CHECK_INTERVAL; the clock advances.
SpecSyncLive == SpecSync /\ WF_vars(MacPoll) /\ WF_vars(Tick)

(***************************************************************************)
(*                     Claims about clipboard sync                         *)
(***************************************************************************)

\* C1: when the only copy made is one copy of a text P at peer A, at most
\* one TEXT frame flows A->B, no frame flows B->A, and once B has handled
\* A's frame B's clipboard holds P.
C1_TextRoundTrip ==
    \A A \in Peers :
        (/\ Len(copies) = 1
         /\ copies[1].peer = A
         /\ copies[1].content.kind = "text")
        => /\ Cardinality({k \in 1..Len(sent) : sent[k].from = A}) <= 1
           /\ \A k \in 1..Len(sent) :
                  /\ sent[k].from = A
                  /\ sent[k].type = "text"
                  /\ sent[k].content = copies[1].content
           /\ (A = "mac" /\ sent # <<>> /\ m2w = <<>>)
                  => win_clipboard = copies[1].content
           /\ (A = "win" /\ sent # <<>> /\ w2m = <<>> /\ win.at = "idle")
                  => mac_pasteboard.content = copies[1].content

\* C2: a remote TEXT P is never written to the clipboard of a peer whose
\* last locally sent or set content is P (each entry of `applied` is a
\* clipboard write together with the update of the arbiter fields).
C2_OwnEchoIgnored ==
    \A k \in 1..Len(applied) :
        applied[k].last_local # HashOf(applied[k].content)

\* C3: after a peer applied a remote text P at time t, that peer sends no
\* frame carrying P before t + update_delay.
C3_SuppressedAfterApply ==
    \A i \in 1..Len(applied) : \A j \in 1..Len(sent) :
        (/\ sent[j].from = applied[i].peer
         /\ j > applied[i].at
         /\ sent[j].content = applied[i].content)
        => sent[j].time >= applied[i].time + UPDATE_DELAY

\* The coordinator applied a remote text, the user then copied the same
\* text again on the coordinator's machine, and the poll loop faces that
\* observation inside the window.
C3_Witness ==
    /\ Len(applied) = 1 /\ Len(copies) = 2
    /\ applied[1].peer = "mac"
    /\ copies[2].peer = "mac"
    /\ copies[2].content = applied[1].content
    /\ copies[2].at > applied[1].at
    /\ mac_pasteboard.changeCount # mac.last_change_count
    /\ now < applied[1].time + UPDATE_DELAY
    /\ now < mac.ignore_clipboard_until

\* C4: when the only copies made are copies of one file list at one peer,
\* only that peer's first observation of the list puts frames on the wire,
\* and they hold one chunk stream per file.
C4_SameFileListOnce ==
    \A X \in Peers :
        (/\ copies # <<>>
         /\ \A k \in 1..Len(copies) :
                /\ copies[k].peer = X
                /\ copies[k].content.kind = "files"
                /\ copies[k].content = copies[1].content)
        => /\ \A k \in 1..Len(sent) : sent[k].obs <= 1
           /\ Cardinality({k \in 1..Len(sent) :
                              sent[k].type = "file_response"})
                  <= Len(copies[1].content.v)

\* C28: a peer that receives a FILE message it can decrypt, for files it
\* does not hold, answers with a FILE_REQUEST to the sender: the handling
\* step puts a file_request frame on the wire.
C28_FileListRequested ==
    [][/\ (w2m # <<>> /\ w2m' = Tail(w2m)
           /\ Head(w2m).type = "file" /\ Head(w2m).layers = 1)
           => (Len(sent') > Len(sent)
               /\ sent'[Len(sent')].type = "file_request"
               /\ sent'[Len(sent')].from = "mac")
       /\ (m2w # <<>> /\ m2w' = Tail(m2w)
           /\ Head(m2w).type = "file" /\ Head(m2w).layers = 1)
           => (Len(sent') > Len(sent)
               /\ sent'[Len(sent')].type = "file_request"
               /\ sent'[Len(sent')].from = "win")
      ]_vars

\* C29: a frame handled by the coordinator without a successful clipboard
\* write (the write returned failure or raised, or nothing was to be
\* written) changes none of last_content_hash, last_update_time,
\* last_remote_content_hash, last_remote_update_time, ignore_clipboard_until,
\* and the session stays open.
C29_FailedApplyChangesNothing ==
    [][(w2m # <<>> /\ w2m' = Tail(w2m) /\ applied' = applied) =>
          /\ mac'.last_content_hash = mac.last_content_hash
          /\ mac'.last_update_time = mac.last_update_time
          /\ mac'.last_remote_content_hash = mac.last_remote_content_hash
          /\ mac'.last_remote_update_time = mac.last_remote_update_time
          /\ mac'.ignore_clipboard_until = mac.ignore_clipboard_until
          /\ mac'.connected_clients = mac.connected_clients
          /\ connection_status' = connection_status
      ]_vars

\* the pasteboard was emptied for a remote text and the write then failed:
\* nothing was applied and no arbiter field was set
C29_Witness ==
    /\ mac_pasteboard.content = NoContent
    /\ mac_pasteboard.changeCount > 0
    /\ applied = <<>>
    /\ w2m = <<>>
    /\ mac.last_remote_content_hash = NoHash
    /\ mac.ignore_clipboard_until = 0
    /\ mac.connected_clients # {}

\* The step sends the text of content c from peer A.
SendsText(A, c) ==
    /\ Len(sent') = Len(sent) + 1
    /\ sent'[Len(sent')].from = A
    /\ sent'[Len(sent')].type = "text"
    /\ sent'[Len(sent')].content = c

\* The text frames peer A has sent for content c.
TextFramesOf(A, c) ==
    {k \in 1..Len(sent) : /\ sent[k].from = A /\ sent[k].type = "text"
                          /\ sent[k].content = c}

\* Once the coordinator has sent a local text, last_content_hash is its
\* fingerprint.
C33_SentFingerprintRecorded ==
    [][\A c \in Contents :
          SendsText("mac", c) => mac'.last_content_hash = HashOf(c)]_vars

\* A peer whose user copied nothing but the text c has sent at most one
\* frame for it.
C33_SameTextSentOnce ==
    \A A \in Peers : \A c \in Contents :
        (/\ c.kind = "text"
         /\ \A k \in 1..Len(copies) :
                copies[k].peer = A => copies[k].content = c)
        => Cardinality(TextFramesOf(A, c)) <= 1

\* C33: after a local text with fingerprint f has been sent,
\* last_content_hash equals f and every further local observation of the
\* same text, with no different clipboard content in between, produces no
\* frame: one local change is propagated at most once.
C33_LocalTextSentOnce ==
    /\ C33_SentFingerprintRecorded
    /\ []C33_SameTextSentOnce

\* C34: a local observation whose fingerprint equals the last remotely
\* received fingerprint and that is made less than 2 * UPDATE_DELAY after
\* last_remote_update_time produces no outbound frame, also when it falls
\* after the suppression window.  The fields are the coordinator's: the
\* participant's receive path never sets last_remote_content_hash.
C34_RecentRemoteNotEchoed ==
    [][(/\ HashOf(mac_pasteboard.content) = mac.last_remote_content_hash
        /\ now - mac.last_remote_update_time < 2 * UPDATE_DELAY)
       => \A k \in (Len(sent) + 1)..Len(sent') : sent'[k].from # "mac"]_vars

\* The coordinator applied a remote text, the user then copied the same
\* text, and check_clipboard has observed that copy after the suppression
\* window and less than 2 * UPDATE_DELAY after the remote update: the only
\* frame ever sent is the participant's.
C34_Witness ==
    /\ Len(sent) = 1 /\ sent[1].from = "win"
    /\ Len(applied) = 1 /\ applied[1].peer = "mac"
    /\ \E k \in 1..Len(copies) :
          /\ copies[k].peer = "mac" /\ copies[k].at = 2
          /\ copies[k].content = applied[1].content
    /\ mac_pasteboard.content = applied[1].content
    /\ mac.last_change_count = mac_pasteboard.changeCount
    /\ HashOf(mac_pasteboard.content) = mac.last_remote_content_hash
    /\ ~(now < mac.ignore_clipboard_until)
    /\ now - mac.last_remote_update_time < 2 * UPDATE_DELAY

\* The coordinator's pasteboard holds a text c that the user copied, that
\* check_clipboard has not read yet, whose fingerprint is neither the last
\* local nor the last remote one and that was never sent; the suppression
\* window ends within the time the clock covers.
PendingLocalText(c) ==
    /\ mac.connected_clients # {}
    /\ c.kind = "text"
    /\ mac_pasteboard.content = c
    /\ mac_pasteboard.changeCount # mac.last_change_count
    /\ HashOf(c) # mac.last_content_hash
    /\ HashOf(c) # mac.last_remote_content_hash
    /\ TextFramesOf("mac", c) = {}
    /\ mac.ignore_clipboard_until <= T0 + MaxTicks

\* C39: while a client stays connected, every local text change on the
\* coordinator whose fingerprint differs from both the last local and the
\* last remote fingerprint is eventually sent, also when it is made during
\* the suppression window or less than one second after the previous
\* clipboard update.  A change is no longer owed once the pasteboard holds
\* something else or the same text has arrived from the remote side.
C39_LocalTextEventuallySent ==
    \A c \in Contents :
        PendingLocalText(c)
            ~> \/ TextFramesOf("mac", c) # {}
               \/ mac_pasteboard.content # c
               \/ HashOf(c) = mac.last_remote_content_hash

\* C18: every frame sent after the handshake (text, file list, file
\* request, file chunk; by the coordinator's broadcast and by the
\* participant's send path) is exactly one AEAD encryption of a JSON
\* document with a type field, so that one decrypt_message call gives the
\* document back.
C18_SingleEncryption ==
    \A k \in 1..Len(sent) : sent[k].layers = 1

(***************************************************************************)
(*        Authentication and key exchange on one transport                 *)
(*  (WindowsClipboardClient.authenticate / perform_key_exchange,           *)
(*   ClipboardListener.handle_client / perform_key_exchange,               *)
(*   DeviceAuthManager)                                                    *)
(*                                                                         *)
(* One transport is open at a time.  Its initiator is either the           *)
(* participant (the code of windows_client.py) or a raw peer that writes   *)
(* messages of its own choice to the coordinator's socket.                 *)
(***************************************************************************)

\* How many transports are opened, one after the other.
MaxSessions == 3

\* How many tokens authorize_device issues.
MaxTokens == 2

\* How many encrypted frames each side sends on a transport.
MaxFrames == 1

\* How many of the transports a raw peer opens.
MaxRawSessions == 1

\* WindowsClipboardClient._get_device_id: the participant's identity
device_id == "win"

DeviceIds == {"win", "other"}

\* hmac.new(token, device_id, sha256).hexdigest(), kept symbolic: two
\* digests are equal exactly when key and message are equal
Hmac(token, id) == [key |-> token, msg |-> id]

\* the empty signature ""
NoSignature == [key |-> 0, msg |-> ""]

\* WindowsClipboardClient._generate_signature
_generate_signature(token, id) ==
    IF token = <<>> THEN NoSignature ELSE Hmac(token[1], id)

\* DeviceAuthManager.validate_device with the signature check left out
validate_device_known_only(devices, id, signature) ==
    devices[id] # <<>>

\* DeviceAuthManager.validate_device
validate_device(devices, id, signature) ==
    IF devices[id] = <<>>
    THEN FALSE
    ELSE signature = Hmac(devices[id][1], id)

\* A plausible slip: an identity that has a token keeps it.
authorize_device_keeps_existing(devices, id, token) ==
    IF devices[id] = <<>> THEN [devices EXCEPT ![id] = <<token>>] ELSE devices

\* DeviceAuthManager.revoke_device
revoke_device(devices, id) == [devices EXCEPT ![id] = <<>>]

\* DeviceAuthManager.authorize_device; token is the secrets.token_hex(16)
\* drawn by the call
authorize_device(devices, id, token) == [devices EXCEPT ![id] = <<token>>]

\* the JSON documents of the handshake
AuthInfo(id, signature, first) ==
    [type |-> "auth_info", identity |-> id, signature |-> signature,
     first_time |-> first]

\* reason is the lower-cased reason string, as its words
AuthResponse(status, token, reason) ==
    [type |-> "auth_response", status |-> status, token |-> token,
     reason |-> reason]

InvalidSignatureReason == <<"invalid", "signature", "or", "unknown", "device">>

InvalidFormatReason == <<"invalid", "authentication", "format">>

KeyExchangeMsg(type) == [type |-> type]

\* an encrypted post-handshake frame (opaque bytes, not JSON)
AeadFrame == [type |-> "aead"]

\* 'signature' in reason.lower()
NamesSignature(reason) == \E k \in 1..Len(reason) : reason[k] = "signature"

\* entries of the history variable transcript
SendEv(by, m) == [ev |-> "send", by |-> by, m |-> m]

AcceptEv(by, m) == [ev |-> "accept", by |-> by, m |-> m]

\* how many encrypted frames a side has sent on the transport (history)
FramesSent(by) ==
    Cardinality({k \in 1..Len(transcript) :
                    /\ transcript[k].ev = "send"
                    /\ transcript[k].by = by
                    /\ transcript[k].m.type = "aead"})

\* connect_and_sync opens the transport and authenticate sends auth_info;
\* websockets hands the new transport to a fresh handle_client.
authenticate_send ==
    LET first == (device_token = <<>>)
        m == AuthInfo(device_id, _generate_signature(device_token, device_id),
                      first)
    IN  /\ client_at \in {"idle", "closed"}
        /\ handler_at \in {"idle", "done"}
        /\ attempts < MaxSessions
        /\ attempts' = attempts + 1
        /\ peer' = "participant"
        /\ is_first_time' = first
        /\ prev_result' = auth_result
        /\ auth_result' = "none"
        /\ to_server' = <<m>>
        /\ to_client' = <<>>
        /\ transcript' = <<SendEv("initiator", m)>>
        /\ client_at' = "auth"
        /\ handler_at' = "auth"
        /\ UNCHANGED <<device_token, token_file, authorized_devices,
                       next_token, connected_clients, raw_attempts>>
        /\ UNCHANGED notAuth

\* A raw peer opens the transport and writes a first message of its choice.
RawConnect(m) ==
    /\ client_at \in {"idle", "closed"}
    /\ handler_at \in {"idle", "done"}
    /\ attempts < MaxSessions
    /\ raw_attempts < MaxRawSessions
    /\ attempts' = attempts + 1
    /\ raw_attempts' = raw_attempts + 1
    /\ peer' = "raw"
    /\ to_server' = <<m>>
    /\ to_client' = <<>>
    /\ transcript' = <<SendEv("initiator", m)>>
    /\ client_at' = "raw"
    /\ handler_at' = "auth"
    /\ UNCHANGED <<device_token, token_file, authorized_devices, next_token,
                   connected_clients, is_first_time, auth_result,
                   prev_result>>
    /\ UNCHANGED notAuth

\* The raw peer writes one more message (at most MaxFrames + 1 after its
\* first).
RawSend(m) ==
    /\ client_at = "raw"
    /\ Cardinality({k \in 1..Len(transcript) :
                        /\ transcript[k].ev = "send"
                        /\ transcript[k].by = "initiator"}) <= MaxFrames + 1
    /\ to_server' = Append(to_server, m)
    /\ transcript' = Append(transcript, SendEv("initiator", m))
    /\ UNCHANGED <<device_token, token_file, authorized_devices, next_token,
                   connected_clients, is_first_time, auth_result, prev_result,
                   attempts, raw_attempts, peer, to_client, client_at,
                   handler_at>>
    /\ UNCHANGED notAuth

\* The raw peer closes the transport.
RawClose ==
    /\ client_at = "raw"
    /\ client_at' = "closed"
    /\ UNCHANGED <<device_token, token_file, authorized_devices, next_token,
                   connected_clients, is_first_time, auth_result, prev_result,
                   attempts, raw_attempts, peer, to_server, to_client,
                   transcript, handler_at>>
    /\ UNCHANGED notAuth

\* handle_client, from the recv of the auth message to the first send of
\* perform_key_exchange.  token is what secrets.token_hex returns: a value
\* never issued before.
handle_client_auth ==
    /\ handler_at = "auth"
    /\ to_server # <<>>
    /\ LET m == Head(to_server)
           kx == KeyExchangeMsg("key_exchange_server")
           Reply(ms, at) ==
               /\ to_client' = to_client \o ms
               /\ transcript' =
                      transcript \o [k \in 1..Len(ms) |->
                                        SendEv("responder", ms[k])]
               /\ handler_at' = at
       IN  /\ to_server' = Tail(to_server)
           /\ IF m.type # "auth_info"
              THEN \* json.loads raises
                   /\ Reply(<<AuthResponse("error", <<>>,
                                           InvalidFormatReason)>>, "done")
                   /\ UNCHANGED <<authorized_devices, next_token>>
              ELSE IF m.first_time
              THEN /\ next_token < MaxTokens
                   /\ next_token' = next_token + 1
                   /\ authorized_devices' =
                          authorize_device(authorized_devices, m.identity,
                                           next_token + 1)
                   /\ Reply(<<AuthResponse("first_authorized",
                                           <<next_token + 1>>, <<>>), kx>>,
                            "key_exchange")
              ELSE IF validate_device(authorized_devices, m.identity,
                                      m.signature)
              THEN /\ Reply(<<AuthResponse("authorized", <<>>, <<>>), kx>>,
                            "key_exchange")
                   /\ UNCHANGED <<authorized_devices, next_token>>
              ELSE /\ Reply(<<AuthResponse("unauthorized", <<>>,
                                           InvalidSignatureReason)>>, "done")
                   /\ UNCHANGED <<authorized_devices, next_token>>
    /\ UNCHANGED <<device_token, token_file, connected_clients, is_first_time,
                   auth_result, prev_result, attempts, raw_attempts, peer,
                   client_at>>
    /\ UNCHANGED notAuth

\* A plausible slip: every rejection resets the token.
clears_token_on_any_rejection(first, reason) == TRUE

\* `if not is_first_time and 'signature' in reason.lower()`
clears_token(first, reason) == ~first /\ NamesSignature(reason)

\* authenticate, from the recv of the response to its return.  saved says
\* whether the write of _save_device_token succeeded (a failure is caught
\* and printed there); unlinked says whether token_path.unlink() succeeded
\* (a failure skips the reset of device_token).
authenticate_response(saved, unlinked) ==
    /\ client_at = "auth"
    /\ to_client # <<>>
    /\ LET r == Head(to_client) IN
       /\ to_client' = Tail(to_client)
       /\ IF "status" \notin DOMAIN r
          THEN \* json.loads raises: `except json.JSONDecodeError`
               /\ auth_result' = "malformed"
               /\ client_at' = "closed"
               /\ UNCHANGED <<device_token, token_file>>
          ELSE IF r.status = "authorized"
          THEN /\ auth_result' = "authorized"
               /\ client_at' = "key_exchange_server"
               /\ UNCHANGED <<device_token, token_file>>
          ELSE IF r.status = "first_authorized"
          THEN IF r.token # <<>>
               THEN /\ token_file' = IF saved THEN r.token ELSE token_file
                    /\ device_token' = r.token
                    /\ auth_result' = "first_authorized"
                    /\ client_at' = "key_exchange_server"
               ELSE /\ auth_result' = "rejected"
                    /\ client_at' = "closed"
                    /\ UNCHANGED <<device_token, token_file>>
          ELSE IF clears_token(is_first_time, r.reason)
          THEN /\ auth_result' = "invalid_token"
               /\ client_at' = "closed"
               /\ IF token_file # <<>> /\ ~unlinked
                  THEN UNCHANGED <<device_token, token_file>>
                  ELSE /\ token_file' = <<>>
                       /\ device_token' = <<>>
          ELSE /\ auth_result' = "rejected"
               /\ client_at' = "closed"
               /\ UNCHANGED <<device_token, token_file>>
    /\ UNCHANGED <<authorized_devices, next_token, connected_clients,
                   is_first_time, prev_result, attempts, raw_attempts, peer,
                   to_server, transcript, handler_at>>
    /\ UNCHANGED notAuth

\* authenticate or perform_key_exchange gives up: the recv timed out or
\* the transport failed; connect_and_sync leaves its `async with`.
initiator_timeout ==
    /\ client_at \in {"auth", "key_exchange_server", "key_exchange_complete"}
    /\ auth_result' = IF client_at = "auth" THEN "timeout" ELSE auth_result
    /\ client_at' = "closed"
    /\ UNCHANGED <<device_token, token_file, authorized_devices, next_token,
                   connected_clients, is_first_time, prev_result, attempts,
                   raw_attempts, peer, to_server, to_client, transcript,
                   handler_at>>
    /\ UNCHANGED notAuth

\* perform_key_exchange returning True right after it has sent
\* key_exchange_client, without the wait for key_exchange_complete
win_key_exchange_server_early ==
    /\ client_at = "key_exchange_server"
    /\ to_client # <<>>
    /\ to_client' = Tail(to_client)
    /\ to_server' = Append(to_server, KeyExchangeMsg("key_exchange_client"))
    /\ transcript' =
           Append(transcript,
                  SendEv("initiator", KeyExchangeMsg("key_exchange_client")))
    /\ client_at' = "session"
    /\ UNCHANGED <<device_token, token_file, authorized_devices, next_token,
                   connected_clients, is_first_time, auth_result, prev_result,
                   attempts, raw_attempts, peer, handler_at>>
    /\ UNCHANGED notAuth

\* WindowsClipboardClient.perform_key_exchange, first recv: on
\* key_exchange_server it sets the peer key and sends key_exchange_client.
win_key_exchange_server ==
    /\ client_at = "key_exchange_server"
    /\ to_client # <<>>
    /\ to_client' = Tail(to_client)
    /\ IF Head(to_client).type = "key_exchange_server"
       THEN LET m == KeyExchangeMsg("key_exchange_client") IN
            /\ to_server' = Append(to_server, m)
            /\ transcript' = Append(transcript, SendEv("initiator", m))
            /\ client_at' = "key_exchange_complete"
       ELSE /\ client_at' = "closed"
            /\ UNCHANGED <<to_server, transcript>>
    /\ UNCHANGED <<device_token, token_file, authorized_devices, next_token,
                   connected_clients, is_first_time, auth_result, prev_result,
                   attempts, raw_attempts, peer, handler_at>>
    /\ UNCHANGED notAuth

\* WindowsClipboardClient.perform_key_exchange, second recv; on
\* key_exchange_complete connect_and_sync starts the two session tasks.
win_key_exchange_complete ==
    /\ client_at = "key_exchange_complete"
    /\ to_client # <<>>
    /\ to_client' = Tail(to_client)
    /\ IF Head(to_client).type = "key_exchange_complete"
       THEN /\ client_at' = "session"
            /\ transcript' =
                   Append(transcript, AcceptEv("initiator", Head(to_client)))
       ELSE /\ client_at' = "closed"
            /\ UNCHANGED transcript
    /\ UNCHANGED <<device_token, token_file, authorized_devices, next_token,
                   connected_clients, is_first_time, auth_result, prev_result,
                   attempts, raw_attempts, peer, to_server, handler_at>>
    /\ UNCHANGED notAuth

\* ClipboardListener.perform_key_exchange from its recv on, and
\* handle_client up to the receive loop: on key_exchange_client it sends
\* key_exchange_complete and adds the transport to connected_clients.
mac_key_exchange_client ==
    /\ handler_at = "key_exchange"
    /\ to_server # <<>>
    /\ to_server' = Tail(to_server)
    /\ IF Head(to_server).type = "key_exchange_client"
       THEN LET m == KeyExchangeMsg("key_exchange_complete") IN
            /\ to_client' = Append(to_client, m)
            /\ transcript' = Append(transcript, SendEv("responder", m))
            /\ connected_clients' = connected_clients \cup {"ws"}
            /\ handler_at' = "session"
       ELSE /\ handler_at' = "done"
            /\ UNCHANGED <<to_client, transcript, connected_clients>>
    /\ UNCHANGED <<device_token, token_file, authorized_devices, next_token,
                   is_first_time, auth_result, prev_result, attempts,
                   raw_attempts, peer, client_at>>
    /\ UNCHANGED notAuth

\* monitor_clipboard of the participant sends an encrypted frame.
win_send_frame ==
    /\ client_at = "session"
    /\ FramesSent("initiator") < MaxFrames
    /\ to_server' = Append(to_server, AeadFrame)
    /\ transcript' = Append(transcript, SendEv("initiator", AeadFrame))
    /\ UNCHANGED <<device_token, token_file, authorized_devices, next_token,
                   connected_clients, is_first_time, auth_result, prev_result,
                   attempts, raw_attempts, peer, to_client, client_at,
                   handler_at>>
    /\ UNCHANGED notAuth

\* receive_messages of the participant takes a frame and decrypts it.
win_receive_frame ==
    /\ client_at = "session"
    /\ to_client # <<>>
    /\ to_client' = Tail(to_client)
    /\ transcript' = Append(transcript, AcceptEv("initiator", Head(to_client)))
    /\ UNCHANGED <<device_token, token_file, authorized_devices, next_token,
                   connected_clients, is_first_time, auth_result, prev_result,
                   attempts, raw_attempts, peer, to_server, client_at,
                   handler_at>>
    /\ UNCHANGED notAuth

\* A session task of the participant ends; connect_and_sync returns.
win_session_end ==
    /\ client_at = "session"
    /\ client_at' = "closed"
    /\ UNCHANGED <<device_token, token_file, authorized_devices, next_token,
                   connected_clients, is_first_time, auth_result, prev_result,
                   attempts, raw_attempts, peer, to_server, to_client,
                   transcript, handler_at>>
    /\ UNCHANGED notAuth

\* broadcast_encrypted_data of the coordinator: an encrypted frame to every
\* member of connected_clients.
mac_broadcast ==
    /\ "ws" \in connected_clients
    /\ client_at # "closed"
    /\ FramesSent("responder") < MaxFrames
    /\ to_client' = Append(to_client, AeadFrame)
    /\ transcript' = Append(transcript, SendEv("responder", AeadFrame))
    /\ UNCHANGED <<device_token, token_file, authorized_devices, next_token,
                   connected_clients, is_first_time, auth_result, prev_result,
                   attempts, raw_attempts, peer, to_server, client_at,
                   handler_at>>
    /\ UNCHANGED notAuth

\* handle_client's receive loop takes a frame for process_received_data.
mac_receive_frame ==
    /\ handler_at = "session"
    /\ to_server # <<>>
    /\ to_server' = Tail(to_server)
    /\ transcript' = Append(transcript, AcceptEv("responder", Head(to_server)))
    /\ UNCHANGED <<device_token, token_file, authorized_devices, next_token,
                   connected_clients, is_first_time, auth_result, prev_result,
                   attempts, raw_attempts, peer, to_client, client_at,
                   handler_at>>
    /\ UNCHANGED notAuth

\* A plausible slip: the handler leaves without its finally clause.
handle_client_closed_keeps_client ==
    /\ handler_at \in {"auth", "key_exchange", "session"}
    /\ client_at = "closed"
    /\ handler_at' = "done"
    /\ UNCHANGED <<device_token, token_file, authorized_devices, next_token,
                   connected_clients, is_first_time, auth_result, prev_result,
                   attempts, raw_attempts, peer, to_server, to_client,
                   transcript, client_at>>
    /\ UNCHANGED notAuth

\* The transport is closed under the handler: its recv raises, the handler
\* leaves through its finally, which removes the transport.
handle_client_closed ==
    /\ handler_at \in {"auth", "key_exchange", "session"}
    /\ client_at = "closed"
    /\ handler_at' = "done"
    /\ connected_clients' = connected_clients \ {"ws"}
    /\ UNCHANGED <<device_token, token_file, authorized_devices, next_token,
                   is_first_time, auth_result, prev_result, attempts,
                   raw_attempts, peer, to_server, to_client, transcript,
                   client_at>>
    /\ UNCHANGED notAuth

RawFirstMessages ==
    {AuthInfo("win", NoSignature, TRUE),
     AuthInfo("win", NoSignature, FALSE),
     AuthInfo("win", Hmac(1, "win"), FALSE),
     AuthInfo("other", Hmac(1, "win"), FALSE),
     AeadFrame}

RawLaterMessages == {KeyExchangeMsg("key_exchange_client"), AeadFrame}

AuthNext ==
    \/ authenticate_send
    \/ \E m \in RawFirstMessages : RawConnect(m)
    \/ \E m \in RawLaterMessages : RawSend(m)
    \/ RawClose
    \/ handle_client_auth
    \/ \E saved \in BOOLEAN, unlinked \in BOOLEAN :
           authenticate_response(saved, unlinked)
    \/ initiator_timeout
    \/ win_key_exchange_server
    \/ win_key_exchange_complete
    \/ mac_key_exchange_client
    \/ win_send_frame
    \/ win_receive_frame
    \/ win_session_end
    \/ mac_broadcast
    \/ mac_receive_frame
    \/ handle_client_closed

SpecAuth == Init /\ [][AuthNext]_vars

(***************************************************************************)
(*            Claims about authentication and key exchange                 *)
(***************************************************************************)

\* the auth request and the auth response of the current transport
AuthRequestSent == transcript[1].m

ResponderSends ==
    {k \in 1..Len(transcript) :
        transcript[k].ev = "send" /\ transcript[k].by = "responder"}

\* the first message the coordinator sent on the transport
AuthResponseSent ==
    transcript[CHOOSE k \in ResponderSends :
                   \A j \in ResponderSends : k <= j].m

ResponderSent(type) ==
    \E k \in 1..Len(transcript) :
        /\ transcript[k].ev = "send"
        /\ transcript[k].by = "responder"
        /\ transcript[k].m.type = type

\* C11: when the participant has taken a first_authorized response with
\* token T, the token file and the in-memory device token both hold T
\* before it sends or reads any key-agreement message, that is from the
\* moment authenticate returns.
C11_TokenPersistedBeforeKeyExchange ==
    (peer = "participant" /\ auth_result = "first_authorized")
        => /\ token_file = AuthResponseSent.token
           /\ device_token = AuthResponseSent.token

\* C12: a participant with a stored token that takes an unauthorized
\* response whose reason names the signature has deleted its token file
\* and cleared its in-memory token when authenticate returns; its next
\* attempt sends first_time = true, and when that attempt's authenticate
\* ends on a response, a fresh token is persisted, held in memory and
\* registered at the coordinator.
C12_InvalidTokenRepair ==
    /\ auth_result = "invalid_token"
           => (token_file = <<>> /\ device_token = <<>>)
    /\ (prev_result = "invalid_token" /\ peer = "participant")
           => /\ AuthRequestSent.first_time
              /\ auth_result \notin {"none", "timeout"}
                     => /\ auth_result = "first_authorized"
                        /\ token_file = AuthResponseSent.token
                        /\ device_token = AuthResponseSent.token
                        /\ authorized_devices[device_id]
                               = AuthResponseSent.token

HandshakeOrder ==
    <<"auth_info", "auth_response", "key_exchange_server",
      "key_exchange_client", "key_exchange_complete">>

HandshakeBy ==
    <<"initiator", "responder", "responder", "initiator", "responder">>

\* the positions of the transcript that are sends of handshake messages
HandshakeSends ==
    {k \in 1..Len(transcript) :
        transcript[k].ev = "send" /\ transcript[k].m.type # "aead"}

Before(k, ev, by, type) ==
    \E j \in 1..(k - 1) :
        /\ transcript[j].ev = ev
        /\ transcript[j].by = by
        /\ transcript[j].m.type = type

\* C17: on a transport opened by the participant the handshake messages are
\* sent in the order auth request, auth response, key_exchange_server,
\* key_exchange_client, key_exchange_complete; the coordinator sends or
\* accepts an encrypted frame only after it has sent key_exchange_complete,
\* and the participant only after it has received it.
C17_HandshakeOrder ==
    /\ peer = "participant"
           => /\ Cardinality(HandshakeSends) <= Len(HandshakeOrder)
              /\ \A k \in HandshakeSends :
                     /\ k <= Len(HandshakeOrder)
                     /\ transcript[k].m.type = HandshakeOrder[k]
                     /\ transcript[k].by = HandshakeBy[k]
    /\ \A k \in 1..Len(transcript) :
           transcript[k].m.type = "aead"
               => /\ transcript[k].by = "responder"
                      => Before(k, "send", "responder",
                                "key_exchange_complete")
                  /\ (transcript[k].by = "initiator" /\ peer = "participant")
                      => /\ Before(k, "send", "responder",
                                   "key_exchange_complete")
                         /\ Before(k, "accept", "initiator",
                                   "key_exchange_complete")

\* both peers have sent and accepted an encrypted frame on a transport of
\* the participant
C17_Witness ==
    /\ peer = "participant"
    /\ \A by \in {"initiator", "responder"} :
           \E k \in 1..Len(transcript) :
               /\ transcript[k].ev = "accept"
               /\ transcript[k].by = by
               /\ transcript[k].m.type = "aead"

\* The step is a broadcast write of the coordinator on the transport.
BroadcastWrite ==
    /\ Len(transcript') = Len(transcript) + 1
    /\ transcript'[Len(transcript')] = SendEv("responder", AeadFrame)

\* C36: a transport is in connected_clients only if its authentication was
\* answered authorized or first_authorized and its key agreement completed,
\* and a transport whose handler has exited is no longer in the set, so no
\* broadcast is written to it.
C36_ConnectedOnlyAfterHandshake ==
    /\ [](/\ "ws" \in connected_clients
              => /\ handler_at = "session"
                 /\ ResponderSends # {}
                 /\ AuthResponseSent.status
                        \in {"authorized", "first_authorized"}
                 /\ ResponderSent("key_exchange_complete")
          /\ handler_at = "done" => "ws" \notin connected_clients)
    /\ [][BroadcastWrite =>
             (handler_at = "session" /\ "ws" \in connected_clients)]_vars

\* A handler that had completed the handshake and had a broadcast written
\* to its transport has exited, and the transport is out of the set.
C36_Witness ==
    /\ handler_at = "done"
    /\ ResponderSent("key_exchange_complete")
    /\ FramesSent("responder") > 0
    /\ "ws" \notin connected_clients

(***************************************************************************)
(*                      Claims about the file sender                       *)
(***************************************************************************)

\* the FILE_RESPONSE frames a step has put on the wire
NewFrames == SubSeq(chan', Len(chan) + 1, Len(chan'))

\* C13: with chunk size K a file of S bytes is sent as ceil(S / K) chunk
\* frames, each carrying total_chunks = ceil(S / K), every chunk but the
\* last of K bytes: N frames for S = N * K, N + 1 frames with a last chunk
\* of one byte for S = N * K + 1.
C13_ChunkCount ==
    [][\A f \in Files \ {<<>>} :
          SendWhole(f) =>
              LET N == (Len(f) + ChunkSize - 1) \div ChunkSize IN
              /\ Len(NewFrames) = N
              /\ \A k \in 1..Len(NewFrames) :
                     /\ NewFrames[k].total_chunks = N
                     /\ NewFrames[k].chunk_index = k - 1
                     /\ k < N => Len(NewFrames[k].chunk_data) = ChunkSize]_vars

\* C14: sending a file of size 0 puts exactly one chunk frame with an empty
\* body on the wire, and the receiver completes the transfer on it.
C14_EmptyFileOneFrame ==
    [][SendWhole(<<>>) =>
          /\ Len(NewFrames) = 1
          /\ NewFrames[1].chunk_data = <<>>
          /\ handle_received_chunk(NewFrames[1], <<>>, <<>>).ret]_vars

\* C27: the receiver's state for a file name exists from the first chunk of
\* a transfer until that transfer completes: once handle_received_chunk has
\* reported completion, file_transfers has no entry for the name, so the
\* next transfer of the name starts from empty state.
C27_TransferStateDestroyed ==
    chunk_result = "True" => filename \notin DOMAIN file_transfers

\* C22: in every chunk stream the sender produces, the frame with
\* chunk_index 0 carries the digest of the whole file (file_hash) and every
\* frame with chunk_index > 0 carries none.
C22_DigestOnFirstChunk ==
    \A k \in 1..Len(chan) :
        IF chan[k].chunk_index = 0
        THEN "file_hash" \in DOMAIN chan[k]
        ELSE "file_hash" \notin DOMAIN chan[k]

(***************************************************************************)
(*                  PairingManager.generate_pairing_code                   *)
(***************************************************************************)

\* Distance between the values random.randint is let to return; both ends
\* of its range are always among them.
PairingStride == 4999

randint_lo == 100000

randint_hi == 999999

\* random.randint(0, 999999)
RandintValues_from_zero ==
    {v \in {k * PairingStride : k \in 0..(randint_hi \div PairingStride)} :
        v <= randint_hi}
    \cup {randint_hi}

\* random.randint(100000, 999999): both ends included
RandintValues ==
    {v \in {randint_lo + k * PairingStride :
                k \in 0..((randint_hi - randint_lo) \div PairingStride)} :
        v <= randint_hi}
    \cup {randint_hi}

\* f"{n}" for an int n >= 0: its decimal digits, most significant first,
\* without leading zeros
RECURSIVE FormatInt(_)
FormatInt(n) ==
    IF n < 10 THEN <<n>> ELSE Append(FormatInt(n \div 10), n % 10)

\* int(s) for a string of decimal digits
RECURSIVE ParseInt(_)
ParseInt(digits) ==
    IF digits = <<>> THEN 0
    ELSE 10 * ParseInt(SubSeq(digits, 1, Len(digits) - 1))
         + digits[Len(digits)]

generate_pairing_code ==
    /\ \E r \in RandintValues : pairing_code' = FormatInt(r)
    /\ UNCHANGED notPairing

SpecPairing == Init /\ [][generate_pairing_code]_vars

\* C20: every pairing code generate_pairing_code returns is a string of
\* exactly six decimal digits whose value lies in 100000..999999.
C20_SixDigits ==
    pairing_code # <<>>
        => /\ Len(pairing_code) = 6
           /\ \A k \in 1..Len(pairing_code) : pairing_code[k] \in 0..9
           /\ ParseInt(pairing_code) >= 100000
           /\ ParseInt(pairing_code) <= 999999

\* the upper end of the range has been returned
C20_Witness == pairing_code = <<9, 9, 9, 9, 9, 9>>

(***************************************************************************)
(*              The coordinator and two participants: SpecHub              *)
(*                                                                         *)
(* ClipboardListener has one SecurityManager (security_mgr) for all its    *)
(* clients, and so has every participant for all its sessions.  A key pair *)
(* is named after the process that generated it.  A transport is the pair  *)
(* of the participant and the number of the connection.  Authentication    *)
(* (SpecAuth) is taken to succeed.                                         *)
(***************************************************************************)

\* Transports opened in one behaviour.
MaxHubSessions == 2

\* Broadcasts started in one behaviour.
MaxBroadcasts == 1

Participants == {"A", "B"}

NoClient == <<"none", 0>>

\* HKDF(private_key.exchange(ECDH, peer_public_key)): one key per pair of
\* key pairs, the same whichever side derives it.
SessionKey(private_key, peer_public_key) ==
    IF {private_key, peer_public_key} = {"S", "A"} THEN "k1" ELSE "k2"

\* SecurityManager.set_peer_public_key on the fields of a SecurityManager.
derive_shared_key(mgr, peer_public_key) ==
    IF mgr.private_key # None
    THEN [mgr EXCEPT !.shared_key = SessionKey(mgr.private_key, peer_public_key)]
    ELSE mgr

\* The clipboard update the coordinator broadcasts, and the nonce drawn.
BroadcastData == <<65>>

\* A broadcast that drops the clients whose write raised, not the ones whose
\* write is still pending at the deadline.
failed_clients_raised_only(outcome) ==
    {c \in DOMAIN outcome : outcome[c] = "raised"}

\* failed_clients of broadcast_encrypted_data: pending at the 10 s deadline,
\* or done with an exception.
failed_clients(outcome) ==
    {c \in DOMAIN outcome : outcome[c] \in {"raised", "pending"}}

\* Participant p opens a transport and authenticates; handle_client sends
\* key_exchange_server; the participant's perform_key_exchange has made its
\* key pair if it had none and waits for the server's key.
hub_connect(p) ==
    /\ peer_at[p] = "idle"
    /\ hub_at[p] = "idle"
    /\ hub_connects < MaxHubSessions
    /\ hub_connects' = hub_connects + 1
    /\ ws_of' = [ws_of EXCEPT ![p] = hub_connects + 1]
    /\ peer_security_mgr' =
           [peer_security_mgr EXCEPT
               ![p].private_key = IF @ = None THEN p ELSE @]
    /\ peer_at' = [peer_at EXCEPT ![p] = "wait_server_key"]
    /\ hub_at' = [hub_at EXCEPT ![p] = "wait_client_key"]
    /\ inbox' = [inbox EXCEPT ![p] = <<>>]
    /\ UNCHANGED <<hub_security_mgr, hub_clients, peer_read, bcast, bcast_log,
                   broadcasts>>
    /\ UNCHANGED notHub

\* The participant receives key_exchange_server, derives its shared key and
\* sends key_exchange_client.
peer_key_exchange_server(p) ==
    /\ peer_at[p] = "wait_server_key"
    /\ peer_security_mgr' =
           [peer_security_mgr EXCEPT ![p] = derive_shared_key(@, "S")]
    /\ peer_at' = [peer_at EXCEPT ![p] = "wait_complete"]
    /\ UNCHANGED <<hub_security_mgr, hub_at, ws_of, hub_clients, hub_connects,
                   inbox, peer_read, bcast, bcast_log, broadcasts>>
    /\ UNCHANGED notHub

\* The coordinator receives key_exchange_client, derives the shared key into
\* its one security_mgr, sends key_exchange_complete and adds the transport
\* to connected_clients.
hub_key_exchange_client(p) ==
    /\ hub_at[p] = "wait_client_key"
    /\ peer_at[p] = "wait_complete"
    /\ hub_security_mgr' = derive_shared_key(hub_security_mgr, p)
    /\ hub_at' = [hub_at EXCEPT ![p] = "session"]
    /\ hub_clients' = hub_clients \cup {<<p, ws_of[p]>>}
    /\ UNCHANGED <<peer_security_mgr, peer_at, ws_of, hub_connects, inbox,
                   peer_read, bcast, bcast_log, broadcasts>>
    /\ UNCHANGED notHub

\* The participant receives key_exchange_complete: CONNECTED.
peer_key_exchange_complete(p) ==
    /\ peer_at[p] = "wait_complete"
    /\ hub_at[p] = "session"
    /\ peer_at' = [peer_at EXCEPT ![p] = "connected"]
    /\ UNCHANGED <<hub_security_mgr, peer_security_mgr, hub_at, ws_of,
                   hub_clients, hub_connects, inbox, peer_read, bcast,
                   bcast_log, broadcasts>>
    /\ UNCHANGED notHub

\* connect_and_sync ends (a failed step, a finished task, a closed
\* transport): the transport is closed and the status is DISCONNECTED.  No
\* statement on this path touches security_mgr.
peer_disconnect(p) ==
    /\ peer_at[p] # "idle"
    /\ peer_at' = [peer_at EXCEPT ![p] = "idle"]
    /\ UNCHANGED <<hub_security_mgr, peer_security_mgr, hub_at, ws_of,
                   hub_clients, hub_connects, inbox, peer_read, bcast,
                   bcast_log, broadcasts>>
    /\ UNCHANGED notHub

\* handle_client sees the closed transport; its finally block removes the
\* transport from connected_clients.
hub_handler_exit(p) ==
    /\ hub_at[p] # "idle"
    /\ peer_at[p] = "idle"
    /\ hub_at' = [hub_at EXCEPT ![p] = "idle"]
    /\ hub_clients' = hub_clients \ {<<p, ws_of[p]>>}
    /\ ws_of' = [ws_of EXCEPT ![p] = 0]
    /\ inbox' = [inbox EXCEPT ![p] = <<>>]
    /\ UNCHANGED <<hub_security_mgr, peer_security_mgr, peer_at, hub_connects,
                   peer_read, bcast, bcast_log, broadcasts>>
    /\ UNCHANGED notHub

\* broadcast_encrypted_data up to `await asyncio.wait(tasks, timeout=10.0)`.
broadcast_start(exclude_client) ==
    LET encrypted == encrypt_message(hub_security_mgr.shared_key,
                                     BroadcastData, Pad(<<>>))
        active_clients == hub_clients \ {exclude_client}
    IN  /\ bcast = <<>>
        /\ broadcasts < MaxBroadcasts
        /\ hub_clients # {}
        /\ broadcasts' = broadcasts + 1
        /\ bcast' = IF encrypted.ok /\ active_clients # {}
                    THEN <<[recipients |-> active_clients,
                            exclude_client |-> exclude_client,
                            encrypted_data |-> encrypted.data]>>
                    ELSE <<>>
        /\ UNCHANGED <<hub_security_mgr, peer_security_mgr, hub_at, peer_at,
                       ws_of, hub_clients, hub_connects, inbox, peer_read,
                       bcast_log>>
        /\ UNCHANGED notHub

\* The rest of broadcast_encrypted_data.  outcome says how each write ended:
\* "sent", "raised", or still "pending" at the deadline.  A write to a
\* transport that is closed does not succeed.
broadcast_finish(outcome) ==
    /\ bcast # <<>>
    /\ DOMAIN outcome = bcast[1].recipients
    /\ \A c \in DOMAIN outcome :
           outcome[c] = "sent" => (ws_of[c[1]] = c[2] /\ peer_at[c[1]] # "idle")
    /\ inbox' = [p \in Participants |->
                    IF /\ <<p, ws_of[p]>> \in DOMAIN outcome
                       /\ outcome[<<p, ws_of[p]>>] = "sent"
                    THEN Append(inbox[p], bcast[1].encrypted_data)
                    ELSE inbox[p]]
    /\ hub_clients' = hub_clients \ failed_clients(outcome)
    /\ bcast' = <<>>
    /\ bcast_log' = <<[recipients |-> bcast[1].recipients,
                       exclude_client |-> bcast[1].exclude_client,
                       outcome |-> outcome]>>
    /\ UNCHANGED <<hub_security_mgr, peer_security_mgr, hub_at, peer_at, ws_of,
                   hub_connects, peer_read, broadcasts>>
    /\ UNCHANGED notHub

\* receive_messages of a CONNECTED participant: one frame, decrypt_message.
peer_receive_messages(p) ==
    /\ peer_at[p] = "connected"
    /\ inbox[p] # <<>>
    /\ peer_read' =
           [peer_read EXCEPT
               ![p] = Append(@, decrypt_message(peer_security_mgr[p].shared_key,
                                                Head(inbox[p])))]
    /\ inbox' = [inbox EXCEPT ![p] = Tail(@)]
    /\ UNCHANGED <<hub_security_mgr, peer_security_mgr, hub_at, peer_at, ws_of,
                   hub_clients, hub_connects, bcast, bcast_log, broadcasts>>
    /\ UNCHANGED notHub

HubNext ==
    \/ \E p \in Participants : hub_connect(p)
    \/ \E p \in Participants : peer_key_exchange_server(p)
    \/ \E p \in Participants : hub_key_exchange_client(p)
    \/ \E p \in Participants : peer_key_exchange_complete(p)
    \/ \E p \in Participants : peer_disconnect(p)
    \/ \E p \in Participants : hub_handler_exit(p)
    \/ \E c \in hub_clients \cup {NoClient} : broadcast_start(c)
    \/ \E outcome \in [IF bcast = <<>> THEN {} ELSE bcast[1].recipients ->
                          {"sent", "raised", "pending"}] :
           broadcast_finish(outcome)
    \/ \E p \in Participants : peer_receive_messages(p)

SpecHub == Init /\ [][HubNext]_vars

\* C23: the shared key of a session is the same at both ends for as long as
\* the session is open, also when the coordinator completes a handshake with
\* another participant meanwhile, and every frame a connected participant
\* reads from the coordinator decrypts.
C23_SessionKeyStable ==
    \A p \in Participants :
        /\ (peer_at[p] = "connected" /\ hub_at[p] = "session")
               => hub_security_mgr.shared_key = peer_security_mgr[p].shared_key
        /\ \A k \in 1..Len(peer_read[p]) : peer_read[p][k].ok

\* C24: a participant whose session has been torn down (transport closed,
\* DISCONNECTED) holds no shared key, so encrypt_message and decrypt_message
\* raise the no-key error until the next key agreement.
C24_NoKeyAfterTeardown ==
    \A p \in Participants :
        peer_at[p] = "idle" =>
            /\ peer_security_mgr[p].shared_key = None
            /\ ~encrypt_message(peer_security_mgr[p].shared_key,
                                BroadcastData, Pad(<<>>)).ok

MaxTaskSessions == 2

TaskNames == {"clipboard_task", "receive_task"}

Ended == {"returned", "raised", "returned_on_cancel"}

\* connect_and_sync: authenticate and perform_key_exchange returned True;
\* CONNECTED, both tasks created, asyncio.wait entered.
session_start ==
    /\ supervisor = "idle"
    /\ running
    /\ task_sessions < MaxTaskSessions
    /\ task_sessions' = task_sessions + 1
    /\ connection_status' = "CONNECTED"
    /\ tasks' = [t \in TaskNames |-> "running"]
    /\ supervisor' = "wait"
    /\ UNCHANGED running
    /\ UNCHANGED notTask

\* monitor_clipboard ends: its loop condition is false, a send failed, or an
\* exception reached one of its handlers, which break; how = "raised" is an
\* exception that is no Exception and no CancelledError.
monitor_clipboard_exit(how) ==
    /\ tasks["clipboard_task"] = "running"
    /\ tasks' = [tasks EXCEPT !["clipboard_task"] = how]
    /\ UNCHANGED <<connection_status, running, supervisor, task_sessions>>
    /\ UNCHANGED notTask

\* receive_messages ends (transport closed, error, loop condition false);
\* its finally block sets DISCONNECTED.
receive_messages_return(how) ==
    /\ tasks["receive_task"] = "running"
    /\ tasks' = [tasks EXCEPT !["receive_task"] = how]
    /\ connection_status' = "DISCONNECTED"
    /\ UNCHANGED <<running, supervisor, task_sessions>>
    /\ UNCHANGED notTask

\* asyncio.wait returns without cancelling what is pending.
first_completed_no_cancel ==
    /\ supervisor = "wait"
    /\ \E t \in TaskNames : tasks[t] \in Ended
    /\ supervisor' = "await_pending"
    /\ UNCHANGED <<connection_status, running, tasks, task_sessions>>
    /\ UNCHANGED notTask

\* asyncio.wait(..., return_when=FIRST_COMPLETED) returns; task.cancel() on
\* the first pending task, then `await task`.
first_completed ==
    /\ supervisor = "wait"
    /\ \E t \in TaskNames : tasks[t] \in Ended
    /\ tasks' = [t \in TaskNames |->
                    IF tasks[t] = "running" THEN "cancel_requested"
                    ELSE tasks[t]]
    /\ supervisor' = "await_pending"
    /\ UNCHANGED <<connection_status, running, task_sessions>>
    /\ UNCHANGED notTask

\* The CancelledError arrives at the task's await: both loops have
\* `except asyncio.CancelledError: break`; receive_messages then runs its
\* finally block.
task_cancelled(t) ==
    /\ tasks[t] = "cancel_requested"
    /\ tasks' = [tasks EXCEPT ![t] = "returned_on_cancel"]
    /\ connection_status' =
           IF t = "receive_task" THEN "DISCONNECTED" ELSE connection_status
    /\ UNCHANGED <<running, supervisor, task_sessions>>
    /\ UNCHANGED notTask

\* `await task` is over for every pending task; the exceptions of the done
\* tasks are printed; return True leaves `async with` (the transport is
\* closed) and the finally block sets DISCONNECTED.
connect_and_sync_return ==
    /\ supervisor = "await_pending"
    /\ \A t \in TaskNames : tasks[t] # "cancel_requested"
    /\ supervisor' = "idle"
    /\ connection_status' = "DISCONNECTED"
    /\ UNCHANGED <<running, tasks, task_sessions>>
    /\ UNCHANGED notTask

\* stop(): the loops of both tasks test self.running.
session_stop ==
    /\ running
    /\ supervisor # "idle"
    /\ running' = FALSE
    /\ UNCHANGED <<connection_status, tasks, supervisor, task_sessions>>
    /\ UNCHANGED notTask

SessionNext ==
    \/ session_start
    \/ \E how \in {"returned", "raised"} : monitor_clipboard_exit(how)
    \/ \E how \in {"returned", "raised"} : receive_messages_return(how)
    \/ first_completed
    \/ \E t \in TaskNames : task_cancelled(t)
    \/ connect_and_sync_return
    \/ session_stop

SpecSession == Init /\ [][SessionNext]_vars

\* The event loop runs every task that is ready: the supervisor after
\* asyncio.wait and `await task`, and a task whose cancellation is pending.
SpecSessionLive ==
    /\ SpecSession
    /\ WF_vars(first_completed)
    /\ WF_vars(connect_and_sync_return)
    /\ \A t \in TaskNames : WF_vars(task_cancelled(t))

\* C25: once one of the two tasks of a CONNECTED session has ended, normally
\* or with an exception, the supervisor cancels the other, waits for it to
\* end, and the status becomes DISCONNECTED; whenever connect_and_sync has
\* returned, neither task is running.
C25_FirstCompletedCancelsOther ==
    /\ []((supervisor = "idle" /\ task_sessions > 0) =>
             /\ \A t \in TaskNames : tasks[t] \in Ended
             /\ connection_status = "DISCONNECTED")
    /\ \A n \in 1..MaxTaskSessions :
           (task_sessions = n /\ \E t \in TaskNames : tasks[t] \in Ended)
               ~> (task_sessions = n /\ supervisor = "idle"
                   /\ connection_status = "DISCONNECTED"
                   /\ \A t \in TaskNames : tasks[t] \in Ended)

\* connect_and_sync returned after the sender task raised and the receiver
\* task was cancelled
C25_Witness ==
    /\ supervisor = "idle"
    /\ tasks["clipboard_task"] = "raised"
    /\ tasks["receive_task"] = "returned_on_cancel"
    /\ connection_status = "DISCONNECTED"

(***************************************************************************)
(*       authenticate against a responder that is not handle_client        *)
(***************************************************************************)

\* What a responder other than ClipboardListener may answer to auth_info:
\* bytes that are no JSON, a rejection whose reason does not name the
\* signature, a rejection that does, first_authorized without a token, and
\* the error reply.
ForeignResponses ==
    {AeadFrame,
     AuthResponse("unauthorized", <<>>, <<"device", "blocked">>),
     AuthResponse("unauthorized", <<>>, InvalidSignatureReason),
     AuthResponse("first_authorized", <<>>, <<>>),
     AuthResponse("error", <<>>, InvalidFormatReason)}

\* The transport ends at such a responder: it takes the auth_info and
\* answers r.
foreign_auth_response(r) ==
    /\ peer = "participant"
    /\ client_at = "auth"
    /\ handler_at = "auth"
    /\ to_server # <<>>
    /\ to_server' = <<>>
    /\ to_client' = <<r>>
    /\ transcript' = Append(transcript, SendEv("responder", r))
    /\ handler_at' = "done"
    /\ UNCHANGED <<device_token, token_file, authorized_devices, next_token,
                   connected_clients, is_first_time, auth_result, prev_result,
                   attempts, raw_attempts, peer, client_at>>
    /\ UNCHANGED notAuth

AuthClientNext ==
    \/ AuthNext
    \/ \E r \in ForeignResponses : foreign_auth_response(r)

SpecAuthClient == Init /\ [][AuthClientNext]_vars

\* C30: an authenticate call that ends in failure for any reason other than
\* the rejection of a token the participant presented (a response that is
\* neither authorized nor first_authorized and whose reason names the
\* signature, to a request that was not first_time) leaves the token file
\* and the in-memory token as they were: a timeout or transport error,
\* a response that is no JSON, a rejection with another reason, a rejection
\* of a first_time request, first_authorized without a token.
C30_OtherFailuresKeepToken ==
    [][(/\ peer = "participant"
        /\ client_at = "auth"
        /\ client_at' = "closed"
        /\ ~(/\ to_client # <<>>
             /\ to_client' = Tail(to_client)
             /\ "status" \in DOMAIN Head(to_client)
             /\ Head(to_client).status \notin {"authorized", "first_authorized"}
             /\ ~is_first_time
             /\ \E k \in 1..Len(Head(to_client).reason) :
                    Head(to_client).reason[k] = "signature"))
       => (token_file' = token_file /\ device_token' = device_token)
      ]_vars

\* a participant holding a token was rejected for a reason that does not
\* name the signature, and still holds the token and the file
C30_Witness ==
    /\ peer = "participant"
    /\ client_at = "closed"
    /\ auth_result = "rejected"
    /\ ~is_first_time
    /\ device_token # <<>>
    /\ token_file # <<>>
    /\ \E k \in 1..Len(transcript) :
           /\ transcript[k].ev = "send"
           /\ transcript[k].by = "responder"
           /\ transcript[k].m = AuthResponse("unauthorized", <<>>,
                                             <<"device", "blocked">>)

\* ------------------------------------------------------------------------
\* The file cache of FileHandler (handlers/file_handler.py): a dict from
\* content digest to local path, persisted as temp_dir/filecache.json.
\* A dict is a function on Digests whose value is None where the key is
\* absent.  The environment creates and deletes files.
\* ------------------------------------------------------------------------
MaxCacheOps == 4

Digests == {"h1", "h2"}

CachePaths == {"p1", "p2"}

EmptyCache == [h \in Digests |-> None]

\* save_file_cache: json.dump of the dict; a failure is printed and swallowed.
save_file_cache(cache, file, saved) == IF saved THEN cache ELSE file

\* load_file_cache: the persisted dict, or {} when the file is missing or
\* cannot be read.
load_file_cache(file, readable) == IF readable THEN file ELSE EmptyCache

\* `file_hash in self.file_cache`
InFileCache(cache, file_hash) == cache[file_hash] # None

\* get_from_file_cache: the recorded path if it still exists, else None.
\* The dict is not touched.
get_from_file_cache(cache, exists, file_hash) ==
    LET path == cache[file_hash]
    IN  IF path # None /\ path \in exists THEN path ELSE None

add_to_file_cache(file_hash, file_path, saved) ==
    /\ cache_ops < MaxCacheOps
    /\ cache_ops' = cache_ops + 1
    /\ IF file_path \in disk
       THEN /\ file_cache' = [file_cache EXCEPT ![file_hash] = file_path]
            /\ cache_file' = save_file_cache(file_cache', cache_file, saved)
       ELSE UNCHANGED <<file_cache, cache_file>>
    /\ UNCHANGED <<disk, cache_lookup>>
    /\ UNCHANGED notCache

cache_get(file_hash) ==
    /\ cache_ops < MaxCacheOps
    /\ cache_ops' = cache_ops + 1
    /\ cache_lookup' = [op |-> "get", file_hash |-> file_hash,
                        result |-> get_from_file_cache(file_cache, disk,
                                                       file_hash),
                        at |-> cache_ops']
    /\ UNCHANGED <<file_cache, cache_file, disk>>
    /\ UNCHANGED notCache

\* handle_received_files: a listed file whose digest is in the cache is not
\* requested.
cache_contains(file_hash) ==
    /\ cache_ops < MaxCacheOps
    /\ cache_ops' = cache_ops + 1
    /\ cache_lookup' = [op |-> "in", file_hash |-> file_hash,
                        result |-> InFileCache(file_cache, file_hash),
                        at |-> cache_ops']
    /\ UNCHANGED <<file_cache, cache_file, disk>>
    /\ UNCHANGED notCache

\* A new FileHandler is constructed over the same temp_dir.
cache_restart(readable) ==
    /\ cache_ops < MaxCacheOps
    /\ cache_ops' = cache_ops + 1
    /\ file_cache' = load_file_cache(cache_file, readable)
    /\ UNCHANGED <<cache_file, disk, cache_lookup>>
    /\ UNCHANGED notCache

path_created(p) ==
    /\ p \notin disk
    /\ disk' = disk \cup {p}
    /\ UNCHANGED <<file_cache, cache_file, cache_lookup, cache_ops>>
    /\ UNCHANGED notCache

path_removed(p) ==
    /\ p \in disk
    /\ disk' = disk \ {p}
    /\ UNCHANGED <<file_cache, cache_file, cache_lookup, cache_ops>>
    /\ UNCHANGED notCache

CacheNext ==
    \/ \E h \in Digests, p \in CachePaths, saved \in BOOLEAN :
          add_to_file_cache(h, p, saved)
    \/ \E h \in Digests : cache_get(h)
    \/ \E h \in Digests : cache_contains(h)
    \/ \E readable \in BOOLEAN : cache_restart(readable)
    \/ \E p \in CachePaths : path_created(p)
    \/ \E p \in CachePaths : path_removed(p)

SpecCache == Init /\ [][CacheNext]_vars

\* A get_from_file_cache call on an entry whose path is gone.
StaleLookup(h) ==
    /\ cache_ops' = cache_ops + 1
    /\ cache_lookup' # cache_lookup
    /\ cache_lookup'.op = "get" /\ cache_lookup'.file_hash = h
    /\ file_cache[h] # None /\ file_cache[h] \notin disk

\* C31: a cache lookup by digest whose recorded path no longer exists
\* returns no path and removes the entry, in memory and in the persisted
\* file, so the entry is absent from later lookups and membership tests.
C31_StaleEntryRemoved ==
    [][\A h \in Digests :
          StaleLookup(h) =>
             /\ cache_lookup'.result = None
             /\ ~InFileCache(file_cache', h)
             /\ ~InFileCache(cache_file', h)]_vars

(***************************************************************************)
(*        The coordinator's receive handlers (mac_clip_check.py)           *)
(*                                                                         *)
(* Each connected client has its own handle_client task, which hands every *)
(* frame it receives to process_received_data.  The tasks of two clients   *)
(* interleave where process_received_data awaits: the sends of the         *)
(* FILE_REQUEST branch.  check_clipboard (MacPoll) runs beside them.  A    *)
(* frame is given by the bytes decrypt_message returned for it.            *)
(***************************************************************************)
MaxRxFrames == 2

RxClients == {"A", "B"}

JNull == [t |-> "null", o |-> <<>>]

JNumber == [t |-> "number", o |-> <<>>]

JObject(fields) == [t |-> "object", o |-> fields]

NotUtf8 == [form |-> "not_utf8", value |-> JNull]

NotJson == [form |-> "not_json", value |-> JNull]

Json(v) == [form |-> "json", value |-> v]

\* MessageType
KnownTypes == {"text", "file", "file_response", "file_request"}

RxPayloads ==
    {NotUtf8, NotJson, Json(JNull), Json(JNumber), Json(JObject(<<>>)),
     Json(JObject([content |-> "P"])),
     Json(JObject([type |-> "status", content |-> "P"])),
     Json(JObject([type |-> "text", content |-> "P"])),
     Json(JObject([type |-> "file", files |-> <<"a.bin">>])),
     Json(JObject(FileResponse(0, 1, <<1>>, <<>>))),
     Json(JObject([type |-> "file_request", path |-> "a.bin"]))}

\* A plausible slip: message.get("type", "text") in place of the test for
\* the type field.
dispatch_default_text(payload) ==
    IF payload.form = "not_utf8" THEN "UnicodeDecodeError"
    ELSE IF payload.form = "not_json" \/ payload.value.t = "null"
    THEN "invalid"
    ELSE IF payload.value.t # "object" THEN "Exception"
    ELSE IF "type" \notin DOMAIN payload.value.o THEN "text"
    ELSE IF payload.value.o.type \in KnownTypes THEN payload.value.o.type
    ELSE "unknown"

\* process_received_data up to its branch: decode('utf-8'),
\* ClipMessage.deserialize (None when json.loads fails), the test
\* `not message or "type" not in message` (TypeError for a number, caught by
\* `except Exception`), and the if/elif chain over msg_type.
dispatch(payload) ==
    IF payload.form = "not_utf8" THEN "UnicodeDecodeError"
    ELSE IF payload.form = "not_json" \/ payload.value.t = "null"
    THEN "invalid"
    ELSE IF payload.value.t # "object" THEN "Exception"
    ELSE IF DOMAIN payload.value.o = {} THEN "invalid"
    ELSE IF "type" \notin DOMAIN payload.value.o THEN "invalid"
    ELSE IF payload.value.o.type \in KnownTypes THEN payload.value.o.type
    ELSE "unknown"

\* message.get("content", "") as clipboard content
RxText(o) == IF "content" \in DOMAIN o THEN Text(o.content) ELSE NoContent

RxFrameUnchanged ==
    /\ UNCHANGED <<now, win, win_clipboard, m2w, w2m, sent, applied, copies,
                   last_local, file_obs>>
    /\ UNCHANGED <<src_file, passes, chan, dups, chunk_result, delivered>>
    /\ UNCHANGED <<connVars, cryptoVars, authVars, pairing_code, hubVars,
                   taskVars, cacheVars,
                   regVars>>

\* handle_client of client p passed authentication and key exchange and
\* added its websocket to connected_clients.
rx_connect(p) ==
    /\ rx_at[p] = "none"
    /\ rx_at' = [rx_at EXCEPT ![p] = "recv"]
    /\ mac' = [mac EXCEPT !.connected_clients = @ \cup {p}]
    /\ UNCHANGED <<rx_out, rx_last, rx_count>>
    /\ UNCHANGED <<now, win, mac_pasteboard, win_clipboard, m2w, w2m, sent,
                   applied, copies, last_local, file_obs>>
    /\ UNCHANGED <<connVars, cryptoVars, fileVars, authVars, pairing_code,
                   hubVars, taskVars, cacheVars,
                   regVars>>

\* process_received_data on a frame of client p, up to its return or its
\* first await.  ok is what the environment answers: the pasteboard to
\* setString_forType_ in the TEXT branch, Path.exists in handle_file_transfer.
\* FILE raises TypeError at the call of handle_received_files;
\* FILE_RESPONSE raises it when the bool that handle_received_chunk returned
\* is unpacked, after the chunk was written.
rx_handle(p, payload, ok) ==
    /\ rx_at[p] = "recv" /\ p \in mac.connected_clients
    /\ rx_count < MaxRxFrames
    /\ rx_count' = rx_count + 1
    /\ rx_last' = [client |-> p, payload |-> payload, n |-> rx_count']
    /\ LET branch == dispatch(payload)
           o == payload.value.o
           c == RxText(o)
           writes == /\ branch = "text"
                     /\ ClipText(c) # <<>>
                     /\ HashOf(c) # mac.last_content_hash
           cc == mac_pasteboard.changeCount + 1
           awaits == branch = "file_request" /\ "path" \in DOMAIN o /\ ok
           chunk == handle_received_chunk(o, dest_file, file_transfers)
       IN  /\ mac_pasteboard' =
                  IF writes /\ ok THEN [content |-> c, changeCount |-> cc]
                  ELSE IF writes
                  THEN [content |-> NoContent, changeCount |-> cc]
                  ELSE mac_pasteboard
           /\ mac' = [(IF writes
                       THEN apply_remote_text(mac, c, cc, now, ok)
                       ELSE mac)
                      EXCEPT !.is_receiving = awaits]
           /\ rx_at' = IF awaits THEN [rx_at EXCEPT ![p] = "sending_file"]
                       ELSE rx_at
           /\ rx_out' = IF awaits
                        THEN Append(rx_out, [to |-> p, type |-> "file",
                                             layers |-> 2, read |-> FALSE])
                        ELSE rx_out
           /\ dest_file' = IF branch = "file_response" THEN chunk.file
                           ELSE dest_file
           /\ file_transfers' = IF branch = "file_response"
                                THEN chunk.transfers ELSE file_transfers
    /\ RxFrameUnchanged

\* handle_file_transfer after its first send returned: the file's bytes go
\* out as one FILE_RESPONSE.
rx_file_sent(p) ==
    /\ rx_at[p] = "sending_file"
    /\ rx_at' = [rx_at EXCEPT ![p] = "sending_response"]
    /\ rx_out' = Append(rx_out, [to |-> p, type |-> "file_response",
                                 layers |-> 2, read |-> FALSE])
    /\ UNCHANGED <<rx_last, rx_count>>
    /\ UNCHANGED notRecv

\* The second send returned; process_received_data leaves through its
\* finally clause.
rx_response_sent(p) ==
    /\ rx_at[p] = "sending_response"
    /\ rx_at' = [rx_at EXCEPT ![p] = "recv"]
    /\ mac' = [mac EXCEPT !.is_receiving = FALSE]
    /\ UNCHANGED <<rx_out, rx_last, rx_count>>
    /\ UNCHANGED <<now, win, mac_pasteboard, win_clipboard, m2w, w2m, sent,
                   applied, copies, last_local, file_obs>>
    /\ UNCHANGED <<connVars, cryptoVars, fileVars, authVars, pairing_code,
                   hubVars, taskVars, cacheVars,
                   regVars>>

ReceiveNext ==
    \/ \E p \in RxClients : rx_connect(p)
    \/ \E p \in RxClients, payload \in RxPayloads, ok \in BOOLEAN :
          rx_handle(p, payload, ok)
    \/ \E p \in RxClients : rx_file_sent(p)
    \/ \E p \in RxClients : rx_response_sent(p)
    \/ \E c \in Contents : MacUserCopy(c)
    \/ MacPoll
    \/ Tick

SpecReceive == Init /\ [][ReceiveNext]_vars

\* The decrypted bytes are not UTF-8 JSON, or carry no type field, or a type
\* that is not a message type.
Malformed(payload) ==
    \/ payload.form # "json"
    \/ payload.value.t # "object"
    \/ "type" \notin DOMAIN payload.value.o
    \/ payload.value.o.type \notin KnownTypes

\* The fields that gate sending and applying.
ArbiterState(m) ==
    <<m.last_change_count, m.last_content_hash, m.last_update_time,
      m.ignore_clipboard_until, m.last_remote_content_hash,
      m.last_remote_update_time>>

\* The step is process_received_data on a malformed frame.
HandlesMalformed ==
    /\ rx_count' = rx_count + 1
    /\ Malformed(rx_last'.payload)

InsideReceive(p) == rx_at[p] \in {"sending_file", "sending_response"}

\* check_clipboard read a new change count and called process_clipboard.
PollProcesses ==
    /\ rx_count' = rx_count
    /\ mac'.last_change_count # mac.last_change_count

\* C37: on the coordinator, the local clipboard poll never processes a
\* clipboard change while any client handler is inside
\* process_received_data: with two or more clients whose handlers
\* interleave at their await points, the is_receiving flag stays true until
\* the last of them has finished.
C37_PollWaitsForHandlers ==
    /\ []((\E p \in RxClients : InsideReceive(p)) => mac.is_receiving)
    /\ [][PollProcesses => \A p \in RxClients : ~InsideReceive(p)]_vars

(***************************************************************************)
(*           The device registry (utils/security/auth.py)                  *)
(*                                                                         *)
(* The calls the coordinator makes on its DeviceAuthManager: the            *)
(* first_time branch of handle_client authorizes, the other branch          *)
(* validates, an operator revokes.                                          *)
(***************************************************************************)
MaxRegTokens == 3

RegSignatures ==
    {NoSignature} \cup {Hmac(t, id) : t \in 1..MaxRegTokens, id \in DeviceIds}

\* handle_client, first_time branch: authorize_device whatever the registry
\* holds for the identity.
reg_first_time(id) ==
    /\ reg_next < MaxRegTokens
    /\ reg_next' = reg_next + 1
    /\ registry' = authorize_device(registry, id, reg_next + 1)
    /\ reg_retired' = [reg_retired EXCEPT ![id] =
                          @ \cup {registry[id][k] : k \in 1..Len(registry[id])}]
    /\ reg_last' = [op |-> "authorize", id |-> id, signature |-> NoSignature,
                    result |-> TRUE]
    /\ UNCHANGED notReg

\* handle_client, the other branch: validate_device on the signature sent.
reg_validate(id, signature) ==
    /\ reg_last' = [op |-> "validate", id |-> id, signature |-> signature,
                    result |-> validate_device(registry, id, signature)]
    /\ UNCHANGED <<registry, reg_next, reg_retired>>
    /\ UNCHANGED notReg

reg_revoke(id) ==
    /\ registry' = revoke_device(registry, id)
    /\ reg_retired' = [reg_retired EXCEPT ![id] =
                          @ \cup {registry[id][k] : k \in 1..Len(registry[id])}]
    /\ reg_last' = [op |-> "revoke", id |-> id, signature |-> NoSignature,
                    result |-> registry[id] # <<>>]
    /\ UNCHANGED reg_next
    /\ UNCHANGED notReg

RegistryNext ==
    \/ \E id \in DeviceIds : reg_first_time(id)
    \/ \E id \in DeviceIds, signature \in RegSignatures :
          reg_validate(id, signature)
    \/ \E id \in DeviceIds : reg_revoke(id)

SpecRegistry == Init /\ [][RegistryNext]_vars

\* C40: a first_time auth request for an identity that already has a stored
\* token replaces that token with a fresh one: afterwards a signature
\* computed with the old token is rejected and one computed with the new
\* token is accepted, and after revoke_device(id) no signature validates for
\* id until it is authorized again.
C40_TokenReplacedAndRevoked ==
    [][\A id \in DeviceIds :
          /\ reg_first_time(id) =>
                /\ registry'[id] # <<>> /\ registry'[id] # registry[id]
                /\ registry'[id][1] \notin reg_retired'[id]
                /\ validate_device(registry', id, Hmac(registry'[id][1], id))
                /\ \A t \in reg_retired'[id] :
                       ~validate_device(registry', id, Hmac(t, id))
          /\ reg_revoke(id) =>
                \A signature \in RegSignatures :
                    ~validate_device(registry', id, signature)
          /\ \A signature \in RegSignatures :
                reg_validate(id, signature) =>
                    /\ registry[id] = <<>> => ~reg_last'.result
                    /\ signature.key \in reg_retired[id] => ~reg_last'.result
                    /\ (registry[id] # <<>>
                        /\ signature = Hmac(registry[id][1], id))
                           => reg_last'.result]_vars

\* An identity's token was replaced by a first_time request, and a signature
\* made with the old token has been rejected.
C40_Witness ==
    /\ reg_last # <<>>
    /\ reg_last.op = "validate" /\ ~reg_last.result
    /\ registry[reg_last.id] # <<>>
    /\ reg_last.signature.key \in reg_retired[reg_last.id]
    /\ reg_last.signature.msg = reg_last.id

(***************************************************************************)
(*          A file exchange between the coordinator and a client           *)
(*                                                                         *)
(* The coordinator's handlers as above, and the participant's              *)
(* receive_messages reading what the coordinator wrote to it.  A frame of  *)
(* rx_out is in flight until the client has read it; w2m holds what the    *)
(* participant sends in reply.                                             *)
(***************************************************************************)

\* A plausible slip: the participant asks for every file announced to it.
participant_reply_requests(f) ==
    IF f.type = "file"
    THEN <<[from |-> "win", type |-> "file_request",
            content |-> FileList(<<filename>>), layers |-> 1, time |-> now,
            obs |-> 0]>>
    ELSE <<>>

\* receive_messages on one frame: what it sends back.  A frame encrypted
\* twice is not JSON after one decrypt_message and goes to
\* _handle_raw_binary_data; 'file' goes to _handle_file_info, which records
\* the batch; 'file_response' goes to _handle_file_response.  None of them
\* calls websocket.send.
participant_reply(f) ==
    IF f.layers # 1 THEN <<>>
    ELSE IF f.type = "file" THEN <<>>
    ELSE IF f.type = "file_response" THEN <<>>
    ELSE <<>>

\* the frames written to client p that p has not read
InFlight(p) == {k \in 1..Len(rx_out) : rx_out[k].to = p /\ ~rx_out[k].read}

rx_client_receive(p) ==
    /\ InFlight(p) # {}
    /\ LET k == CHOOSE i \in InFlight(p) : \A j \in InFlight(p) : i <= j IN
       /\ rx_out' = [rx_out EXCEPT ![k].read = TRUE]
       /\ w2m' = w2m \o participant_reply(rx_out[k])
    /\ UNCHANGED <<rx_at, rx_last, rx_count>>
    /\ UNCHANGED <<now, mac, win, mac_pasteboard, win_clipboard, m2w, sent,
                   applied, copies, last_local, file_obs>>
    /\ UNCHANGED <<connVars, cryptoVars, fileVars, authVars, pairing_code,
                   hubVars, taskVars, cacheVars,
                   regVars>>

ExchangeNext ==
    \/ \E p \in RxClients : rx_connect(p)
    \/ \E p \in RxClients, payload \in RxPayloads, ok \in BOOLEAN :
          rx_handle(p, payload, ok)
    \/ \E p \in RxClients : rx_file_sent(p)
    \/ \E p \in RxClients : rx_response_sent(p)
    \/ \E p \in RxClients : rx_client_receive(p)

SpecExchange == Init /\ [][ExchangeNext]_vars

\* A send of the coordinator returns once the client has read, and a
\* connected participant's receive loop keeps reading: both are tasks of a
\* running event loop.
SpecExchangeLive ==
    /\ SpecExchange
    /\ \A p \in RxClients :
          /\ WF_vars(rx_file_sent(p))
          /\ WF_vars(rx_response_sent(p))
          /\ WF_vars(rx_client_receive(p))

FileRequestsIn(frames) ==
    {k \in 1..Len(frames) : frames[k].type = "file_request"}

\* The step handles a file-list announcement of a client.
HandlesFileList ==
    /\ rx_count' = rx_count + 1
    /\ rx_last'.payload.form = "json"
    /\ rx_last'.payload.value.t = "object"
    /\ "files" \in DOMAIN rx_last'.payload.value.o

\* C38: one file-list announcement between two peers leads to a bounded
\* exchange: the receiver sends at most one FILE_REQUEST per listed file,
\* the response to a FILE_REQUEST does not itself trigger a further
\* FILE_REQUEST, and the exchange reaches a state with no file frames in
\* flight.
C38_ExchangeBounded ==
    /\ [][HandlesFileList =>
             Cardinality(FileRequestsIn(rx_out')) -
                 Cardinality(FileRequestsIn(rx_out))
                     <= Len(rx_last'.payload.value.o.files)]_vars
    /\ [](FileRequestsIn(w2m) = {})
    /\ \A p \in RxClients :
          /\ (InFlight(p) # {}) ~> (InFlight(p) = {})
          /\ InsideReceive(p) ~> ~InsideReceive(p)

\* A FILE_REQUEST was answered with the FILE message and the file's bytes,
\* the client has read both, the handler has returned, and nothing is on
\* the wire.
C38_Witness ==
    /\ Len(rx_out) = 2
    /\ rx_out[1].type = "file" /\ rx_out[2].type = "file_response"
    /\ \A k \in 1..Len(rx_out) : rx_out[k].read
    /\ \A p \in RxClients : ~InsideReceive(p)
    /\ w2m = <<>>

====
